---- MODULE Spec2Model ----
(***************************************************************************)
(* Verification model of the computing-society moderation bot.             *)
(*                                                                         *)
(* The model follows the latest revision of the program                    *)
(* (src/unnamed/part_001).  set_verification_channel and the               *)
(* VerificationChannelID field of the earlier revisions                    *)
(* (src/unnamed/part_000, src/main.go) are not in it and not in the model. *)
(*                                                                         *)
(* Strings the program splits or matches are sequences of one-character    *)
(* strings.  Instants are counted in units of 30 seconds, so that          *)
(* time.Minute is 2 units and an elapsed time below one minute exists.     *)
(***************************************************************************)
EXTENDS Integers, Sequences, FiniteSets, TLC

VARIABLES
    loadErr,        \* result of main's loadConfig(), NotLoaded before the call
    config,         \* the global config (its Servers map)
    file,           \* content of ./data/config.json
    readers,        \* goroutines holding configMutex.RLock
    pc,             \* position of each admin-command goroutine
    cmd,            \* the slash command each goroutine is handling
    data,           \* saveConfig's local: the marshalled document
    saveErr,        \* saveConfig's result in each goroutine
    reply,          \* content of the InteractionRespond of each goroutine
    issued,         \* number of admin commands received so far
    saveFailed,     \* history: some saveConfig has returned an error
    rateLimitMap,   \* the global rateLimitMap: user id -> last instant
    now,            \* the wall clock, time.Now()
    handler,        \* each goroutine running an event handler: the event, the
                    \* handler's position and locals, and its outbound
                    \* Discord calls that have returned, in order
    platform,       \* what the calls have done so far on Discord's side
    rateLimitLock,  \* the goroutine holding rateLimitLock, None when free
    writer,         \* the goroutine holding configMutex.Lock, None when free
    run             \* each goroutine stepping through a handler's uses of
                    \* configMutex and config: the handler and its position

adminVars == <<loadErr, config, file, readers, pc, cmd, data, saveErr, reply, issued, saveFailed>>
flowVars == <<rateLimitMap, now, handler, platform, rateLimitLock, writer, run>>
vars == <<loadErr, config, file, readers, pc, cmd, data, saveErr, reply, issued, saveFailed,
          rateLimitMap, now, handler, platform, rateLimitLock, writer, run>>

(***************************************************************************)
(* Bounds of the model.                                                    *)
(***************************************************************************)
MaxCmds == 2        \* admin commands received in one behaviour
MaxMinutes == 1     \* largest argument of set_rate_limit that does not overflow
MaxTime == 3        \* last instant of the wall clock
MaxPosts == 1       \* messages the handlers post in one behaviour

(***************************************************************************)
(* Program constants.                                                      *)
(***************************************************************************)
Minute == 2                 \* time.Minute, in units of 30 seconds
DefaultRateLimitMinutes == 5

(***************************************************************************)
(* time.Duration, an int64 count of nanoseconds.  The durations of this    *)
(* program are multiples of 1024 ns.  A duration is written as its whole   *)
(* units of 30 seconds, rounded down, and the rest in steps of 1024 ns, of *)
(* which a unit has 29296875: d = (units * 29296875 + rest) * 1024 ns.     *)
(***************************************************************************)
HalfMinute == 29296875

\* the duration with that many units and steps, the steps carried over
Normal(units, steps) ==
    [units |-> units + steps \div HalfMinute, rest |-> steps % HalfMinute]

\* n units of 30 seconds
Dur(n) == [units |-> n, rest |-> 0]

\* d < e, for two durations
Less(d, e) == d.units < e.units \/ (d.units = e.units /\ d.rest < e.rest)

\* d > n units, d < n units
Longer(d, n) == n < d.units \/ (n = d.units /\ d.rest > 0)
Shorter(d, n) == d.units < n

\* int(d / time.Minute): the quotient truncated toward zero
InMinutes(d) ==
    IF d.units >= 0 THEN d.units \div Minute
    ELSE -((IF d.rest > 0 THEN -d.units - 1 ELSE -d.units) \div Minute)

\* 2^63 ns and 2^64 ns
TwoTo63 == [units |-> 307445734, rest |-> 16459742]
TwoTo64 == [units |-> 614891469, rest |-> 3622609]

\* d is an int64: -2^63 <= d < 2^63
InInt64(d) == ~Less(d, Normal(-TwoTo63.units, -TwoTo63.rest)) /\ Less(d, TwoTo63)

\* n units of 30 seconds less j times 2^64 ns
LessWraps(n, j) == Normal(n - j * TwoTo64.units, -j * TwoTo64.rest)

\* the int64 that n units of 30 seconds wrap to, for n of 32 bits: the
\* number of wraps is next to n / 2^64 ns
Wrap(n) ==
    LET j0 == n \div TwoTo64.units
        j == CHOOSE j \in (j0 - 1)..(j0 + 1) : InInt64(LessWraps(n, j))
    IN  LessWraps(n, j)

\* time.Duration(minutes) * time.Minute
Minutes(minutes) == Wrap(minutes * Minute)

None == "none"
NotLoaded == "not loaded"
NoGuild == <<>>             \* the empty guild id ""
NoID == <<>>                \* the empty string "" of an unset id field

Guilds == {<<"7">>, <<"8">>}
Procs == {"h1", "h2"}
AuditChannels == {<<"4">>}
Roles == {<<"6">>}

(***************************************************************************)
(* ServerConfig and Config.  A Go map is a function on its key set; the    *)
(* nil map of a zero Config is Allocated = FALSE with no keys.             *)
(***************************************************************************)
ZeroServerConfig ==
    [MemberAuditChannelID  |-> NoID,
     UnverifiedRoleID      |-> NoID,
     RateLimitEnabled      |-> FALSE,
     RateLimitDuration     |-> Dur(0)]

EmptyMap == [g \in {} |-> ZeroServerConfig]

\* var config Config
ZeroConfig == [Allocated |-> FALSE, Servers |-> EmptyMap]

\* Config{Servers: make(map[string]ServerConfig)}
FreshConfig == [Allocated |-> TRUE, Servers |-> EmptyMap]

\* v, ok := m[k]
Exists(servers, g) == g \in DOMAIN servers
Lookup(servers, g) == IF g \in DOMAIN servers THEN servers[g] ELSE ZeroServerConfig

\* a store that keeps no other key
StoreDroppingOthers(servers, g, sc) == [x \in {g} |-> sc]

\* m[k] = v
Store(servers, g, sc) ==
    [x \in (DOMAIN servers) \cup {g} |-> IF x = g THEN sc ELSE servers[x]]

\* if _, exists := config.Servers[guildID]; !exists { config.Servers[guildID] = ServerConfig{} }
EnsureEntry(servers, g) ==
    IF Exists(servers, g) THEN servers ELSE Store(servers, g, ZeroServerConfig)

(***************************************************************************)
(* The read-modify-write of each admin write command, done under           *)
(* configMutex.Lock().                                                     *)
(***************************************************************************)
setMemberAuditChannelWrite(servers, g, channelID) ==
    LET s1 == EnsureEntry(servers, g)
    IN  Store(s1, g, [s1[g] EXCEPT !.MemberAuditChannelID = channelID])

setUnverifiedRoleWrite(servers, g, roleID) ==
    LET s1 == EnsureEntry(servers, g)
    IN  Store(s1, g, [s1[g] EXCEPT !.UnverifiedRoleID = roleID])

enableRateLimitWrite(servers, g) ==
    LET s1 == EnsureEntry(servers, g)
        sc == [s1[g] EXCEPT !.RateLimitEnabled = TRUE]
    IN  Store(s1, g,
              IF sc.RateLimitDuration = Dur(0)
              THEN [sc EXCEPT !.RateLimitDuration = Minutes(DefaultRateLimitMinutes)]
              ELSE sc)

disableRateLimitWriteClearingDuration(servers, g) ==
    LET s1 == EnsureEntry(servers, g)
    IN  Store(s1, g, [s1[g] EXCEPT !.RateLimitEnabled = FALSE, !.RateLimitDuration = Dur(0)])

disableRateLimitWrite(servers, g) ==
    LET s1 == EnsureEntry(servers, g)
    IN  Store(s1, g, [s1[g] EXCEPT !.RateLimitEnabled = FALSE])

setRateLimitWrite(servers, g, minutes) ==
    LET s1 == EnsureEntry(servers, g)
    IN  Store(s1, g, [s1[g] EXCEPT !.RateLimitDuration = Minutes(minutes)])

\* the least number of minutes whose count of nanoseconds exceeds an int64
OverflowMinutes == 153722868

\* The slash commands an administrator can send: name, guild and option.
NoCmd == [name |-> "none", guild |-> NoGuild, id |-> NoID, minutes |-> 0]

Commands ==
    {[name |-> "set_member_audit_channel", guild |-> g, id |-> c, minutes |-> 0] :
        g \in Guilds, c \in AuditChannels}
    \cup {[name |-> "set_unverified_role", guild |-> g, id |-> r, minutes |-> 0] :
        g \in Guilds, r \in Roles}
    \cup {[name |-> n, guild |-> g, id |-> NoID, minutes |-> 0] :
        n \in {"enable_rate_limit", "disable_rate_limit"}, g \in Guilds}
    \cup {[name |-> "set_rate_limit", guild |-> g, id |-> NoID, minutes |-> m] :
        g \in Guilds, m \in (0..MaxMinutes) \cup {OverflowMinutes}}

\* commandHandlers: the write a command's handler makes to config.Servers
CommandWrite(servers, c) ==
    CASE c.name = "set_member_audit_channel" -> setMemberAuditChannelWrite(servers, c.guild, c.id)
      [] c.name = "set_unverified_role"      -> setUnverifiedRoleWrite(servers, c.guild, c.id)
      [] c.name = "enable_rate_limit"        -> enableRateLimitWrite(servers, c.guild)
      [] c.name = "disable_rate_limit"       -> disableRateLimitWrite(servers, c.guild)
      [] c.name = "set_rate_limit"           -> setRateLimitWrite(servers, c.guild, c.minutes)

(***************************************************************************)
(* The persisted JSON document.  A document is the value of its "servers"  *)
(* member: absent, null, or an object of per-guild objects keyed by the    *)
(* json tags of ServerConfig.  A time.Duration is written as its integer   *)
(* count.                                                                  *)
(***************************************************************************)
NoMembers == [g \in {} |-> [x \in {} |-> 0]]

MarshalServerConfigInMinutes(sc) ==
    [member_audit_channel_id |-> sc.MemberAuditChannelID,
     unverified_role_id      |-> sc.UnverifiedRoleID,
     rate_limit_enabled      |-> sc.RateLimitEnabled,
     rate_limit_duration     |-> Dur(InMinutes(sc.RateLimitDuration))]

MarshalServerConfig(sc) ==
    [member_audit_channel_id |-> sc.MemberAuditChannelID,
     unverified_role_id      |-> sc.UnverifiedRoleID,
     rate_limit_enabled      |-> sc.RateLimitEnabled,
     rate_limit_duration     |-> sc.RateLimitDuration]

\* json.MarshalIndent(config, "", "  ")
Marshal(cfg) ==
    IF cfg.Allocated
    THEN [servers |-> "object",
          members |-> [g \in DOMAIN cfg.Servers |-> MarshalServerConfig(cfg.Servers[g])]]
    ELSE [servers |-> "null", members |-> NoMembers]

\* a member of a JSON object, or the Go zero value left in place when it is absent
Member(obj, key, zero) == IF key \in DOMAIN obj THEN obj[key] ELSE zero

UnmarshalServerConfig(obj) ==
    [MemberAuditChannelID  |-> Member(obj, "member_audit_channel_id", NoID),
     UnverifiedRoleID      |-> Member(obj, "unverified_role_id", NoID),
     RateLimitEnabled      |-> Member(obj, "rate_limit_enabled", FALSE),
     RateLimitDuration     |-> Member(obj, "rate_limit_duration", Dur(0))]

\* json.Unmarshal(data, &config): a JSON object is decoded into the existing
\* map (allocating it when nil), entry by entry; null and an absent member
\* leave the field as it is.
Unmarshal(doc, cfg) ==
    IF doc.servers = "object"
    THEN [Allocated |-> TRUE,
          Servers |-> [g \in (DOMAIN cfg.Servers) \cup (DOMAIN doc.members) |->
                          IF g \in DOMAIN doc.members
                          THEN UnmarshalServerConfig(doc.members[g])
                          ELSE cfg.Servers[g]]]
    ELSE IF doc.servers = "null" THEN ZeroConfig
    ELSE cfg

NoDoc == [servers |-> "absent", members |-> NoMembers]

\* the file: missing, present but not readable, zero bytes long (just
\* truncated), holding the first bytes of a document only, holding bytes
\* that are not JSON, or holding a document
MissingFile == [state |-> "missing", doc |-> NoDoc]
UnreadableFile == [state |-> "unreadable", doc |-> NoDoc]
TruncatedFile == [state |-> "truncated", doc |-> NoDoc]
PartialFile == [state |-> "partial", doc |-> NoDoc]
MalformedFile == [state |-> "malformed", doc |-> NoDoc]
JSONFile(doc) == [state |-> "json", doc |-> doc]

\* loadConfig() returning nil for a missing file without initialising the map
loadConfigLeavingNil(f) ==
    IF f.state = "missing" THEN [err |-> None, config |-> ZeroConfig]
    ELSE IF f.state = "unreadable"
         THEN [err |-> "permission denied", config |-> ZeroConfig]
    ELSE IF f.state \in {"truncated", "partial"}
         THEN [err |-> "unexpected end of JSON input", config |-> ZeroConfig]
    ELSE IF f.state = "malformed"
         THEN [err |-> "invalid character", config |-> ZeroConfig]
         ELSE [err |-> None, config |-> Unmarshal(f.doc, ZeroConfig)]

\* loadConfig() in a fresh process: the error and the resulting config
loadConfig(f) ==
    IF f.state = "missing" THEN [err |-> None, config |-> FreshConfig]
    ELSE IF f.state = "unreadable"
         THEN [err |-> "permission denied", config |-> ZeroConfig]
    ELSE IF f.state \in {"truncated", "partial"}
         THEN [err |-> "unexpected end of JSON input", config |-> ZeroConfig]
    ELSE IF f.state = "malformed"
         THEN [err |-> "invalid character", config |-> ZeroConfig]
         ELSE [err |-> None, config |-> Unmarshal(f.doc, ZeroConfig)]

(***************************************************************************)
(* configMutex.  Lock() is granted when no goroutine holds the lock; the   *)
(* writers of this program take and release it within one step, so only    *)
(* the readers are state.                                                  *)
(***************************************************************************)
CanLockIgnoringReaders(rs) == TRUE

CanLock(rs) == rs = {}

(***************************************************************************)
(* Discord's side of the verification flow: the audit messages that still  *)
(* carry their controls, the users a welcome message was delivered to, the *)
(* unverified role was removed from, and who were removed from the guild,  *)
(* and the audit messages the handlers have posted.                        *)
(***************************************************************************)
\* the audit message of an earlier request that still carries its controls
AuditMessages == {<<"2">>}

\* Discord before any handler has run
NoEffects ==
    [controls |-> AuditMessages, welcomed |-> {}, unroled |-> {}, removed |-> {},
     posts |-> <<>>]

\* the id the platform gives to the k-th message posted
PostedID(k) == <<"5", <<"1", "2", "3", "4", "5", "6", "7", "8", "9">>[k]>>

(***************************************************************************)
(* Events, and the goroutine of an event handler.                          *)
(***************************************************************************)
NoEvent ==
    [kind |-> "none", author |-> NoID, guildID |-> NoGuild, channelID |-> NoID,
     channelType |-> "", content |-> <<>>, memberOf |-> {}, customID |-> <<>>,
     messageID |-> NoID]

\* a goroutine that runs no handler; in a handler, serverConfig, exists and
\* now are the locals of these names, and passed tells that the handler has
\* recorded the time of its message
NoHandler ==
    [pc |-> "idle", event |-> NoEvent, calls |-> <<>>, serverConfig |-> ZeroServerConfig,
     exists |-> FALSE, now |-> 0, passed |-> FALSE]

(***************************************************************************)
(* Admin write commands, each handled by its own goroutine.                *)
(***************************************************************************)
InitFlowVars ==
    /\ rateLimitMap = [u \in {} |-> 0]
    /\ now = 0
    /\ handler = [p \in Procs |-> NoHandler]
    /\ platform = NoEffects
    /\ rateLimitLock = None
    /\ writer = None
    /\ run = [p \in Procs |->
                 [name |-> "none", c |-> NoCmd, guild |-> NoGuild, pc |-> 0]]   \* NoRun

InitAdmin ==
    /\ loadErr = None
    /\ file = MissingFile
    /\ config = loadConfig(MissingFile).config
    /\ readers = {}
    /\ pc = [p \in Procs |-> "idle"]
    /\ cmd = [p \in Procs |-> NoCmd]
    /\ data = [p \in Procs |-> NoDoc]
    /\ saveErr = [p \in Procs |-> None]
    /\ reply = [p \in Procs |-> <<>>]
    /\ issued = 0
    /\ saveFailed = FALSE
    /\ InitFlowVars

\* The handlers are registered once main's loadConfig() has returned without
\* error.  The handler takes configMutex.Lock(), creates the entry if absent
\* (a write to a nil map panics), sets its field, stores the entry and
\* unlocks; it then calls saveConfig().
CommandLockedWrite(p) ==
    /\ loadErr = None
    /\ pc[p] = "idle"
    /\ issued < MaxCmds
    /\ CanLock(readers)
    /\ config.Allocated
    /\ \E c \in Commands :
         /\ cmd' = [cmd EXCEPT ![p] = c]
         /\ config' = [config EXCEPT !.Servers = CommandWrite(config.Servers, c)]
    /\ pc' = [pc EXCEPT ![p] = "save"]
    /\ reply' = [reply EXCEPT ![p] = <<>>]
    /\ saveErr' = [saveErr EXCEPT ![p] = None]
    /\ issued' = issued + 1
    /\ UNCHANGED <<file, readers, data, saveFailed>>
    /\ UNCHANGED <<loadErr, flowVars>>

\* saveConfig: configMutex.RLock(); data, err := json.MarshalIndent(config)
SaveMarshal(p) ==
    /\ pc[p] = "save"
    /\ readers' = readers \cup {p}
    /\ data' = [data EXCEPT ![p] = Marshal(config)]
    /\ pc' = [pc EXCEPT ![p] = "marshalled"]
    /\ UNCHANGED <<config, file, cmd, saveErr, reply, issued, saveFailed>>
    /\ UNCHANGED <<loadErr, flowVars>>

\* saveConfig: os.MkdirAll, then os.WriteFile opening the file with O_TRUNC;
\* either can fail, and the deferred RUnlock runs on return.
SaveOpen(p) ==
    /\ pc[p] = "marshalled"
    /\ \E outcome \in {"ok", "mkdir failed", "open failed"} :
         IF outcome = "ok"
         THEN /\ file' = TruncatedFile
              /\ pc' = [pc EXCEPT ![p] = "opened"]
              /\ UNCHANGED <<readers, saveErr, saveFailed>>
         ELSE /\ saveErr' = [saveErr EXCEPT ![p] = outcome]
              /\ readers' = readers \ {p}
              /\ saveFailed' = TRUE
              /\ pc' = [pc EXCEPT ![p] = "respond"]
              /\ UNCHANGED file
    /\ UNCHANGED <<config, cmd, data, reply, issued>>
    /\ UNCHANGED <<loadErr, flowVars>>

\* saveConfig: os.WriteFile writes data and closes; the deferred RUnlock runs.
\* The write can fail before any byte is written or after some of them, and
\* the close can fail after all of them were written.
SaveWrite(p) ==
    /\ pc[p] = "opened"
    /\ \E outcome \in {"ok", "write failed", "short write", "close failed"} :
         /\ file' = CASE outcome = "ok"           -> JSONFile(data[p])
                      [] outcome = "write failed" -> file
                      [] outcome = "short write"  -> PartialFile
                      [] outcome = "close failed" -> JSONFile(data[p])
         /\ IF outcome = "ok"
            THEN UNCHANGED <<saveErr, saveFailed>>
            ELSE /\ saveErr' = [saveErr EXCEPT ![p] = outcome]
                 /\ saveFailed' = TRUE
    /\ readers' = readers \ {p}
    /\ pc' = [pc EXCEPT ![p] = "respond"]
    /\ UNCHANGED <<config, cmd, data, reply, issued>>
    /\ UNCHANGED <<loadErr, flowVars>>

\* the content of an InteractionRespond: its text, with the error, the id
\* or the number of minutes formatted into it
Reply(text, err, id, minutes) == [text |-> text, err |-> err, id |-> id, minutes |-> minutes]

ErrorSavingText == "Error saving config: "

ErrorReply(err) == Reply(ErrorSavingText, err, NoID, 0)

\* the confirmation of each write command
SuccessReply(c) ==
    CASE c.name = "set_member_audit_channel" ->
            Reply("Member audit channel set successfully! :white_check_mark: <#%s>", None, c.id, 0)
      [] c.name = "set_unverified_role" ->
            Reply("Verified role set successfully! :white_check_mark: <@&%s>", None, c.id, 0)
      [] c.name = "enable_rate_limit" ->
            Reply("Rate limiting enabled successfully! :white_check_mark:", None, NoID, 0)
      [] c.name = "disable_rate_limit" ->
            Reply("Rate limiting disabled successfully! :white_check_mark:", None, NoID, 0)
      [] c.name = "set_rate_limit" ->
            Reply("Rate limit set to %d minutes successfully! :white_check_mark:", None, NoID,
                  c.minutes)

\* the replies of a handler that does not return after the error reply
CommandRepliesFallingThrough(c, err) ==
    IF err # None THEN <<ErrorReply(err), SuccessReply(c)>> ELSE <<SuccessReply(c)>>

\* the replies of a handler, as sent
CommandReplies(c, err) ==
    IF err # None THEN <<ErrorReply(err)>> ELSE <<SuccessReply(c)>>

\* The handler replies with the save error and returns, or replies with
\* the confirmation.
CommandRespond(p) ==
    /\ pc[p] = "respond"
    /\ reply' = [reply EXCEPT ![p] = CommandReplies(cmd[p], saveErr[p])]
    /\ pc' = [pc EXCEPT ![p] = "idle"]
    /\ cmd' = [cmd EXCEPT ![p] = NoCmd]
    /\ data' = [data EXCEPT ![p] = NoDoc]
    /\ saveErr' = [saveErr EXCEPT ![p] = None]
    /\ UNCHANGED <<config, file, readers, issued, saveFailed>>
    /\ UNCHANGED <<loadErr, flowVars>>

\* the reply of check_rate_limit for what its lookup returned
checkRateLimitReply(exists, serverConfig) ==
    IF ~exists
    THEN Reply("No rate limit configured for this server", None, NoID, 0)
    ELSE IF serverConfig.RateLimitEnabled
         THEN Reply("Rate limit is enabled with a duration of %d minutes", None, NoID,
                    InMinutes(serverConfig.RateLimitDuration))
         ELSE Reply("Rate limit is disabled", None, NoID, 0)

\* checkRateLimit: configMutex.RLock(); serverConfig, exists :=
\* config.Servers[i.GuildID]; configMutex.RUnlock().  The write commands
\* hold Lock() within one step only, so RLock() is granted in every state;
\* the lookup of a nil map finds no entry.
CheckLookup(p) ==
    /\ loadErr = None
    /\ pc[p] = "idle"
    /\ issued < MaxCmds
    /\ \E g \in Guilds :
         /\ cmd' = [cmd EXCEPT ![p] = [NoCmd EXCEPT !.name = "check_rate_limit",
                                                    !.guild = g]]
         /\ handler' = [handler EXCEPT
                           ![p].exists = Exists(config.Servers, g),
                           ![p].serverConfig = Lookup(config.Servers, g)]
    /\ pc' = [pc EXCEPT ![p] = "check"]
    /\ reply' = [reply EXCEPT ![p] = <<>>]
    /\ issued' = issued + 1
    /\ UNCHANGED <<config, file, readers, data, saveErr, saveFailed>>
    /\ UNCHANGED <<loadErr, rateLimitMap, now, platform, rateLimitLock, writer, run>>

\* checkRateLimit: s.InteractionRespond with the text for the copy it read,
\* sent after the unlock, whatever the entry has become since
CheckRespond(p) ==
    /\ pc[p] = "check"
    /\ reply' = [reply EXCEPT ![p] =
                    <<checkRateLimitReply(handler[p].exists, handler[p].serverConfig)>>]
    /\ pc' = [pc EXCEPT ![p] = "idle"]
    /\ cmd' = [cmd EXCEPT ![p] = NoCmd]
    /\ handler' = [handler EXCEPT ![p] = NoHandler]
    /\ UNCHANGED <<config, file, readers, data, saveErr, issued, saveFailed>>
    /\ UNCHANGED <<loadErr, rateLimitMap, now, platform, rateLimitLock, writer, run>>

\* a step of checkRateLimit in goroutine p
CheckRateLimit(p) == CheckLookup(p) \/ CheckRespond(p)

NextAdmin ==
    \E p \in Procs :
        \/ CommandLockedWrite(p)
        \/ SaveMarshal(p)
        \/ SaveOpen(p)
        \/ SaveWrite(p)
        \/ CommandRespond(p)
        \/ CheckRateLimit(p)

SpecAdmin == InitAdmin /\ [][NextAdmin]_vars

(***************************************************************************)
(* Startup: main calls loadConfig() on whatever ./data/config.json is,     *)
(* stops on an error, and otherwise serves the admin commands.             *)
(***************************************************************************)
\* the documents {} and {"servers": null}, and one written by an earlier run
\* in which every guild was given its unverified role
LoadDocs ==
    {NoDoc,
     [servers |-> "null", members |-> NoMembers]}
    \cup {Marshal([Allocated |-> TRUE,
                   Servers |-> [g \in Guilds |-> [ZeroServerConfig EXCEPT !.UnverifiedRoleID = r]]]) :
            r \in Roles}

LoadFiles ==
    {MissingFile, UnreadableFile, TruncatedFile, PartialFile, MalformedFile}
    \cup {JSONFile(d) : d \in LoadDocs}

InitLoad ==
    /\ loadErr = NotLoaded
    /\ file \in LoadFiles
    /\ config = ZeroConfig
    /\ readers = {}
    /\ pc = [p \in Procs |-> "idle"]
    /\ cmd = [p \in Procs |-> NoCmd]
    /\ data = [p \in Procs |-> NoDoc]
    /\ saveErr = [p \in Procs |-> None]
    /\ reply = [p \in Procs |-> <<>>]
    /\ issued = 0
    /\ saveFailed = FALSE
    /\ InitFlowVars

\* main: err := loadConfig(); log.Fatalf on an error
LoadConfig ==
    /\ loadErr = NotLoaded
    /\ loadErr' = loadConfig(file).err
    /\ config' = loadConfig(file).config
    /\ UNCHANGED <<file, readers, pc, cmd, data, saveErr, reply, issued, saveFailed>>
    /\ UNCHANGED flowVars

\* An admin write command received while config.Servers is nil: the handler
\* takes configMutex.Lock() and config.Servers[guildID] = ServerConfig{} is an
\* assignment to an entry in a nil map, a run-time panic that no handler
\* recovers: the process ends, this handler having sent no reply.
CommandFaults(p) ==
    /\ loadErr = None
    /\ pc[p] = "idle"
    /\ issued < MaxCmds
    /\ CanLock(readers)
    /\ ~config.Allocated
    /\ \E c \in Commands : cmd' = [cmd EXCEPT ![p] = c]
    /\ pc' = [pc EXCEPT ![p] = "fault"]
    /\ reply' = [reply EXCEPT ![p] = <<>>]
    /\ saveErr' = [saveErr EXCEPT ![p] = None]
    /\ issued' = issued + 1
    /\ UNCHANGED <<config, file, readers, data, saveFailed>>
    /\ UNCHANGED <<loadErr, flowVars>>

\* the process has not ended in a panic
Running == \A p \in Procs : pc[p] # "fault"

NextLoad ==
    \/ LoadConfig
    \/ Running /\ NextAdmin
    \/ Running /\ \E p \in Procs : CommandFaults(p)

SpecLoad == InitLoad /\ [][NextLoad]_vars

(***************************************************************************)
(* Strings.                                                                *)
(***************************************************************************)
approve == <<"a", "p", "p", "r", "o", "v", "e">>
deny == <<"d", "e", "n", "y">>
Separator == "_"

\* index of the first occurrence of character c in s, 0 when there is none
IndexOf(s, c) ==
    LET at == {i \in 1..Len(s) : s[i] = c}
    IN  IF at = {} THEN 0 ELSE CHOOSE i \in at : \A j \in at : i <= j

\* strings.SplitN(s, sep, 2)
SplitInTwo(s, c) ==
    LET k == IndexOf(s, c)
    IN  IF k = 0 THEN <<s>>
        ELSE <<SubSeq(s, 1, k - 1), SubSeq(s, k + 1, Len(s))>>

\* strings.Split(s, sep) for a one-character separator
RECURSIVE Split(_, _)
Split(s, c) ==
    LET k == IndexOf(s, c)
    IN  IF k = 0 THEN <<s>>
        ELSE <<SubSeq(s, 1, k - 1)>> \o Split(SubSeq(s, k + 1, Len(s)), c)

\* emailRegex = ^[a-zA-Z0-9._%+-]+@uclan\.ac\.uk$
LocalPartChars ==
    {
     "a", "b", "c", "d", "e", "f", "g", "h", "i", "j", "k", "l", "m",
     "n", "o", "p", "q", "r", "s", "t", "u", "v", "w", "x", "y", "z",
     "A", "B", "C", "D", "E", "F", "G", "H", "I", "J", "K", "L", "M",
     "N", "O", "P", "Q", "R", "S", "T", "U", "V", "W", "X", "Y", "Z",
     "0", "1", "2", "3", "4", "5", "6", "7", "8", "9", ".", "_", "%",
     "+", "-"
    }
EmailDomain == <<"@", "u", "c", "l", "a", "n", ".", "a", "c", ".", "u", "k">>

\* emailRegex.MatchString(s)
MatchString(s) ==
    \E k \in 1..Len(s) :
        /\ \A i \in 1..k : s[i] \in LocalPartChars
        /\ SubSeq(s, k + 1, Len(s)) = EmailDomain

(***************************************************************************)
(* Identifiers and inputs of the verification flow.                        *)
(***************************************************************************)
Users == {<<"1">>}
BotID == <<"9">>                    \* s.State.User.ID
GuildList == <<<<"7">>, <<"8">>>>   \* s.State.Guilds, in order
GuildTextChannel == <<"3">>

\* the direct channel between the bot and user u
DMChannel(u) == <<"d">> \o u

Contents ==
    {<<"a", ".", "b", "-", "c", "%", "d", "+", "e", "_", "1", "@", "u", "c", "l", "a", "n", ".", "a", "c", ".", "u", "k">>,
     <<"a", "@", "o", "t", "h", "e", "r", ".", "a", "c", ".", "u", "k">>,
     <<"@", "u", "c", "l", "a", "n", ".", "a", "c", ".", "u", "k">>,
     <<"a", "@", "u", "c", "l", "a", "n", ".", "a", "c", ".", "u", "k", "\n">>}

\* the address the users of the model send
RequestContent == <<"a">> \o EmailDomain

CustomIDs ==
    {a \o <<Separator>> \o u : a \in {approve, deny}, u \in Users}
    \cup {<<"f", "o", "o", "_", "b", "a", "r", "_", "b", "a", "z">>,
          <<"a", "p", "p", "r", "o", "v", "e">>,
          <<"a", "p", "p", "r", "o", "v", "e", "_", "1", "_", "2">>,
          <<"l", "a", "u", "n", "c", "h", "_", "1", "2", "3", "4", "5">>}

\* The message texts of the program.  A text is the sequence of its pieces:
\* strings and, for a character a string of the notation cannot hold, the
\* character's Unicode code point (127881 and 128578 are the two emoji, 96 is
\* the back-tick).
WaitText == <<"Please wait %d minutes before sending another verification request.">>
InvalidEmailText == <<"Invalid email. Please provide a valid UCLan email.">>
RequestText == <<"User %s#%s has requested verification with email %s">>
ApprovedText == <<"<@%s> has been approved! Welcome to the server! ", 127881>>
DeniedText == <<"<@%s> has been denied and removed from the server.">>
WelcomeDMText ==
    <<"You have been approved to join the UCLan Computing Society server. Welcome! ", 127881>>
DenialDMText ==
    <<"Oops! You need to verify your identity with a UCLan email address to access the UCLan Computing Society server. This is to ensure only society members have access to the server and ensure we keep a safe and civil community.\n\nAs you did not verify your email, you were kicked from the server. You can rejoin and retry verification using this link: https://discord.gg/CEgCy5ejag. Thank you ", 128578>>
DenialErrorText == <<"Error processing denial">>
UnknownActionText == <<"Unknown action">>
CompletionText == <<"Action completed successfully">>
InstructionText ==
    <<"Welcome! Please provide your university email for verification. For example:",
      96, 96, 96, "example@uclan.ac.uk", 96, 96, 96>>

(***************************************************************************)
(* Outbound Discord calls.  Each handler invocation leaves the calls it    *)
(* made, in order, with their arguments and whether they returned without  *)
(* error.                                                                  *)
(***************************************************************************)
BlankCall ==
    [api |-> "", channel |-> NoID, message |-> NoID, guild |-> NoID, user |-> NoID,
     role |-> NoID, text |-> <<>>, minutes |-> 0, email |-> <<>>, components |-> <<>>,
     ok |-> TRUE]

\* s.Channel(channelID)
ChannelCall(ch, ok) == [BlankCall EXCEPT !.api = "Channel", !.channel = ch, !.ok = ok]

\* s.GuildMember(guildID, userID); ok when err == nil && member != nil
GuildMemberCall(g, u, ok) ==
    [BlankCall EXCEPT !.api = "GuildMember", !.guild = g, !.user = u, !.ok = ok]

\* s.ChannelMessageSend(channelID, content)
ChannelMessageSendCall(ch, text, ok) ==
    [BlankCall EXCEPT !.api = "ChannelMessageSend", !.channel = ch, !.text = text, !.ok = ok]

\* s.ChannelMessageSend(channelID, fmt.Sprintf(WaitText, minutes))
WaitReplyCall(ch, minutes, ok) ==
    [ChannelMessageSendCall(ch, WaitText, ok) EXCEPT !.minutes = minutes]

\* s.ChannelMessageSendComplex(channelID, &MessageSend{Content, Components})
ChannelMessageSendComplexCall(ch, text, u, email, components, ok) ==
    [BlankCall EXCEPT !.api = "ChannelMessageSendComplex", !.channel = ch, !.text = text,
                      !.user = u, !.email = email, !.components = components, !.ok = ok]

\* s.InteractionRespond(i.Interaction, deferred ephemeral response)
InteractionRespondCall(ok) ==
    [BlankCall EXCEPT !.api = "InteractionRespond", !.text = <<"deferred">>, !.ok = ok]

\* s.InteractionResponseEdit(i.Interaction, &WebhookEdit{Content})
InteractionResponseEditCall(text, ok) ==
    [BlankCall EXCEPT !.api = "InteractionResponseEdit", !.text = text, !.ok = ok]

\* s.UserChannelCreate(userID)
UserChannelCreateCall(u, ok) ==
    [BlankCall EXCEPT !.api = "UserChannelCreate", !.user = u, !.ok = ok]

\* s.GuildMemberRoleAdd(guildID, userID, roleID)
GuildMemberRoleAddCall(g, u, r, ok) ==
    [BlankCall EXCEPT !.api = "GuildMemberRoleAdd", !.guild = g, !.user = u,
                      !.role = r, !.ok = ok]

\* s.GuildMemberRoleRemove(guildID, userID, roleID)
GuildMemberRoleRemoveCall(g, u, r, ok) ==
    [BlankCall EXCEPT !.api = "GuildMemberRoleRemove", !.guild = g, !.user = u,
                      !.role = r, !.ok = ok]

\* s.GuildMemberDelete(guildID, userID)
GuildMemberDeleteCall(g, u, ok) ==
    [BlankCall EXCEPT !.api = "GuildMemberDelete", !.guild = g, !.user = u, !.ok = ok]

\* s.ChannelMessageEditComplex(&MessageEdit{Channel, ID, Content, Components: {}})
ChannelMessageEditComplexCall(ch, id, text, u, ok) ==
    [BlankCall EXCEPT !.api = "ChannelMessageEditComplex", !.channel = ch, !.message = id,
                      !.text = text, !.user = u, !.components = <<>>, !.ok = ok]

(***************************************************************************)
(* Events.                                                                 *)
(***************************************************************************)
\* a MessageCreate event, with what the platform answers about its channel
\* (its type, or "error" when s.Channel fails) and about the author's guilds.
\* The direct messages of a user come with every content and every
\* membership; a message memberDM drops before it reads either comes with
\* one of each.
MessageEvents ==
    {e \in {[NoEvent EXCEPT !.kind = "message", !.author = a, !.guildID = g,
                            !.channelID = IF t = "guild text" THEN GuildTextChannel
                                          ELSE DMChannel(a),
                            !.channelType = t, !.content = c, !.memberOf = ms] :
                a \in Users \cup {BotID}, g \in Guilds \cup {NoGuild},
                t \in {"DM", "guild text", "error"}, c \in Contents \cup {RequestContent},
                ms \in SUBSET Guilds} :
        IF e.author # BotID /\ e.channelType = "DM"
        THEN e.content \in Contents
        ELSE e.content = RequestContent /\ e.memberOf = Guilds}

\* contents around the email pattern: something before, a local part, and
\* what should be the domain
Prefixes == {<<>>, <<" ">>, <<"\n">>}

LocalParts ==
    {<<>>, <<"a">>, <<"Z", "9">>, <<".", "_", "%", "+", "-">>, <<"a", " ", "b">>,
     <<"a", "@", "b">>, <<"a", "!">>, <<"#">>}

Suffixes ==
    {<<"@", "u", "c", "l", "a", "n", ".", "a", "c", ".", "u", "k">>,
     <<"@", "U", "C", "L", "A", "N", ".", "A", "C", ".", "U", "K">>,
     <<"@", "U", "c", "l", "a", "n", ".", "a", "c", ".", "u", "k">>,
     <<"@", "u", "c", "l", "a", "n", "x", "a", "c", ".", "u", "k">>,
     <<"@", "u", "c", "l", "a", "n", ".", "a", "c", "x", "u", "k">>,
     <<"u", "c", "l", "a", "n", ".", "a", "c", ".", "u", "k">>,
     <<"@", "u", "c", "l", "a", "n", ".", "a", "c", ".", "u", "k", "\n">>,
     <<"@", "u", "c", "l", "a", "n", ".", "a", "c", ".", "u", "k", " ">>,
     <<"@", "u", "c", "l", "a", "n", ".", "a", "c", ".", "u", "k", ".", "x">>,
     <<"@", "u", "c", "l", "a", "n", ".", "a", "c", ".", "u">>,
     <<"@", "o", "t", "h", "e", "r", ".", "a", "c", ".", "u", "k">>}

EmailContents == {p \o l \o s : p \in Prefixes, l \in LocalParts, s \in Suffixes}

\* direct messages of a user carrying these contents, under the empty guild
\* id Discord gives a direct message or under the id of the first guild
EmailEvents ==
    {[NoEvent EXCEPT !.kind = "message", !.author = a, !.guildID = g,
                     !.channelID = DMChannel(a), !.channelType = "DM",
                     !.content = c, !.memberOf = ms] :
        a \in Users, g \in {GuildList[1], NoGuild}, c \in EmailContents,
        ms \in {{}, Guilds}}

\* an InteractionCreate event of type InteractionMessageComponent: a click
\* on a control of a message in a guild channel
ButtonEvents ==
    {[NoEvent EXCEPT !.kind = "button", !.customID = id, !.guildID = g,
                     !.channelID = ch, !.messageID = msg] :
        id \in CustomIDs, g \in {GuildList[1]}, ch \in AuditChannels, msg \in AuditMessages}

\* a GuildMemberAdd event: user m.User.ID has joined guild m.GuildID
JoinEvents ==
    {[NoEvent EXCEPT !.kind = "join", !.author = u, !.guildID = g] :
        u \in Users, g \in Guilds}

(***************************************************************************)
(* The rate limiter of processEmailVerification.  Instants are whole       *)
(* units of 30 seconds.                                                    *)
(***************************************************************************)
\* exists && now.Sub(lastTime) <= serverConfig.RateLimitDuration
TooSoonInclusive(rl, u, t, duration) ==
    u \in DOMAIN rl /\ ~Shorter(duration, t - rl[u])

\* exists && now.Sub(lastTime) < serverConfig.RateLimitDuration
TooSoon(rl, u, t, duration) ==
    u \in DOMAIN rl /\ Longer(duration, t - rl[u])

\* rateLimitMap[m.Author.ID] = now
Record(rl, u, t) == [x \in (DOMAIN rl) \cup {u} |-> IF x = u THEN t ELSE rl[x]]

\* the %d of the wait reply: serverConfig.RateLimitDuration/time.Minute
WaitMinutes(duration) == InMinutes(duration)

(***************************************************************************)
(* processEmailVerification.                                               *)
(***************************************************************************)
\* the first guild of s.State.Guilds of which the author is a member: the
\* GuildMember calls made, up to and including the first that succeeds
RECURSIVE GuildScan(_, _, _)
GuildScan(guilds, u, memberOf) ==
    IF guilds = <<>> THEN <<>>
    ELSE IF Head(guilds) \in memberOf
         THEN <<GuildMemberCall(Head(guilds), u, TRUE)>>
         ELSE <<GuildMemberCall(Head(guilds), u, FALSE)>> \o GuildScan(Tail(guilds), u, memberOf)

\* guildID after the scan, "" when no call succeeded
ScannedGuild(scan) ==
    IF scan # <<>> /\ scan[Len(scan)].ok THEN scan[Len(scan)].guild ELSE NoGuild

\* the two controls built with a separator the button handler does not split on
AuditControlsWithDash(u) == <<approve \o <<"-">> \o u, deny \o <<"-">> \o u>>

\* the two controls of the audit message
AuditControls(u) == <<approve \o <<Separator>> \o u, deny \o <<Separator>> \o u>>

\* memberDM never returning for the author
IsOwnMessageNever(m) == FALSE

\* if m.Author.ID == s.State.User.ID { return }
IsOwnMessage(m) == m.author = BotID

\* channel, err := s.Channel(m.ChannelID) returned no error and
\* channel.Type == discordgo.ChannelTypeDM
IsDirectMessage(m) == m.channelType = "DM"

\* where processEmailVerification goes once the limiter is behind it: to the
\* invalid-email reply, or to the scan of the guilds
Validate(m) == IF MatchString(m.content) THEN "scan" ELSE "invalid"

\* the limiter entered whatever the entry says
LimiterEntryAlways(serverConfig, m) == "limiter"

\* the pattern checked before the limiter
LimiterEntryPatternFirst(serverConfig, m) ==
    IF ~MatchString(m.content) THEN "invalid"
    ELSE IF serverConfig.RateLimitEnabled THEN "limiter" ELSE "scan"

\* if serverConfig.RateLimitEnabled { the limiter }: where the handler goes
\* with the entry it has read
LimiterEntry(serverConfig, m) ==
    IF serverConfig.RateLimitEnabled THEN "limiter" ELSE Validate(m)

(***************************************************************************)
(* handleButton.                                                           *)
(***************************************************************************)
\* the unverified role is not removed
NoRoleCalls(i, userID, servers, failing) == <<>>

\* under configMutex.RLock(): remove the unverified role of i.GuildID, if
\* the guild has an entry with one
RemoveRoleCalls(i, userID, servers, failing) ==
    IF Exists(servers, i.guildID) /\ servers[i.guildID].UnverifiedRoleID # NoID
    THEN <<GuildMemberRoleRemoveCall(i.guildID, userID, servers[i.guildID].UnverifiedRoleID,
                                     "GuildMemberRoleRemove" \notin failing)>>
    ELSE <<>>

\* edit the original message, then the deferred response
FinishCalls(i, text, userID, failing) ==
    <<ChannelMessageEditComplexCall(i.channelID, i.messageID, text, userID,
                                    "ChannelMessageEditComplex" \notin failing),
      InteractionResponseEditCall(CompletionText, "InteractionResponseEdit" \notin failing)>>

\* case "approve"
ApproveCalls(i, userID, servers, failing) ==
    IF "UserChannelCreate" \in failing THEN <<UserChannelCreateCall(userID, FALSE)>>
    ELSE <<UserChannelCreateCall(userID, TRUE),
           ChannelMessageSendCall(DMChannel(userID), WelcomeDMText,
                                  "ChannelMessageSend" \notin failing)>>
            \o RemoveRoleCalls(i, userID, servers, failing)
            \o FinishCalls(i, ApprovedText, userID, failing)

\* case "deny", with the audit message edited whatever GuildMemberDelete returns
DenyCallsEditingAnyway(i, userID, failing) ==
    IF "UserChannelCreate" \in failing THEN <<UserChannelCreateCall(userID, FALSE)>>
    ELSE <<UserChannelCreateCall(userID, TRUE),
           ChannelMessageSendCall(DMChannel(userID), DenialDMText,
                                  "ChannelMessageSend" \notin failing),
           GuildMemberDeleteCall(i.guildID, userID, "GuildMemberDelete" \notin failing)>>
            \o FinishCalls(i, DeniedText, userID, failing)

\* case "deny", with the member removed before the direct message is sent
DenyCallsKickFirst(i, userID, failing) ==
    IF "UserChannelCreate" \in failing THEN <<UserChannelCreateCall(userID, FALSE)>>
    ELSE <<UserChannelCreateCall(userID, TRUE),
           GuildMemberDeleteCall(i.guildID, userID, "GuildMemberDelete" \notin failing),
           ChannelMessageSendCall(DMChannel(userID), DenialDMText,
                                  "ChannelMessageSend" \notin failing)>>
            \o (IF "GuildMemberDelete" \in failing
                THEN <<InteractionResponseEditCall(DenialErrorText,
                                                   "InteractionResponseEdit" \notin failing)>>
                ELSE FinishCalls(i, DeniedText, userID, failing))

\* case "deny"
DenyCalls(i, userID, failing) ==
    IF "UserChannelCreate" \in failing THEN <<UserChannelCreateCall(userID, FALSE)>>
    ELSE <<UserChannelCreateCall(userID, TRUE),
           ChannelMessageSendCall(DMChannel(userID), DenialDMText,
                                  "ChannelMessageSend" \notin failing),
           GuildMemberDeleteCall(i.guildID, userID, "GuildMemberDelete" \notin failing)>>
            \o (IF "GuildMemberDelete" \in failing
                THEN <<InteractionResponseEditCall(DenialErrorText,
                                                   "InteractionResponseEdit" \notin failing)>>
                ELSE FinishCalls(i, DeniedText, userID, failing))

\* parts := strings.Split(customID, "_")
Parts(customID) == Split(customID, Separator)

\* handleButton going on after a failed acknowledgement
handleButtonCallsIgnoringAckError(i, servers, failing) ==
    <<InteractionRespondCall("InteractionRespond" \notin failing)>> \o
    (LET parts == Parts(i.customID)
     IN  IF Len(parts) # 2 THEN <<>>
         ELSE LET action == parts[1]
                  userID == parts[2]
              IN  IF action = approve THEN ApproveCalls(i, userID, servers, failing)
                  ELSE IF action = deny THEN DenyCalls(i, userID, failing)
                  ELSE <<InteractionResponseEditCall(UnknownActionText,
                                                     "InteractionResponseEdit" \notin failing)>>)

\* the calls of handleButton(s, i); main calls it only for interactions of
\* type InteractionMessageComponent
handleButtonCalls(i, servers, failing) ==
    IF "InteractionRespond" \in failing THEN <<InteractionRespondCall(FALSE)>>
    ELSE <<InteractionRespondCall(TRUE)>> \o
         (LET parts == Parts(i.customID)
          IN  IF Len(parts) # 2 THEN <<>>
              ELSE LET action == parts[1]
                       userID == parts[2]
                   IN  IF action = approve THEN ApproveCalls(i, userID, servers, failing)
                       ELSE IF action = deny THEN DenyCalls(i, userID, failing)
                       ELSE <<InteractionResponseEditCall(UnknownActionText,
                                                          "InteractionResponseEdit" \notin failing)>>)

(***************************************************************************)
(* guildMemberAdd.                                                         *)
(***************************************************************************)
\* the calls of guildMemberAdd(s, m)
guildMemberAddCalls(m, servers, failing) ==
    IF ~Exists(servers, m.guildID) THEN <<>>
    ELSE (IF servers[m.guildID].UnverifiedRoleID # NoID
          THEN <<GuildMemberRoleAddCall(m.guildID, m.author, servers[m.guildID].UnverifiedRoleID,
                                        "GuildMemberRoleAdd" \notin failing)>>
          ELSE <<>>)
         \o (IF "UserChannelCreate" \in failing
             THEN <<UserChannelCreateCall(m.author, FALSE)>>
             ELSE <<UserChannelCreateCall(m.author, TRUE),
                    ChannelMessageSendCall(DMChannel(m.author), InstructionText,
                                           "ChannelMessageSend" \notin failing)>>)

\* what the calls cs of handleButton(s, i) have done on Discord's side: the
\* direct message delivered, the role and the member removed, the message
\* edited to carry no controls
Effects(pf, i, cs) ==
    LET done(api) == {k \in 1..Len(cs) : cs[k].api = api /\ cs[k].ok}
    IN  [controls |-> pf.controls \ {cs[k].message : k \in done("ChannelMessageEditComplex")},
         welcomed |-> pf.welcomed \cup
                        {Parts(i.customID)[2] : k \in {j \in done("ChannelMessageSend") :
                                                          cs[j].text = WelcomeDMText}},
         unroled  |-> pf.unroled \cup {cs[k].user : k \in done("GuildMemberRoleRemove")},
         removed  |-> pf.removed \cup {cs[k].user : k \in done("GuildMemberDelete")},
         posts    |-> pf.posts]

(***************************************************************************)
(* The verification flow.  The process starts from a persisted file; the   *)
(* platform then runs the handler of every event in a goroutine of its     *)
(* own, while time passes.  A goroutine takes a step where its handler     *)
(* reads or writes shared state under a lock and where an outbound call    *)
(* returns; handler[p] holds the event, the locals and the calls made so   *)
(* far until the handler has returned.                                     *)
(***************************************************************************)
\* the per-guild objects a persisted file can hold
StartObjects ==
    {MarshalServerConfig([ZeroServerConfig EXCEPT !.MemberAuditChannelID = a,
                                                  !.RateLimitEnabled = e,
                                                  !.RateLimitDuration = d]) :
        a \in AuditChannels \cup {NoID}, e \in BOOLEAN,
        d \in {Minutes(m) : m \in 0..MaxMinutes} \cup {Minutes(DefaultRateLimitMinutes)}}

\* the files the process can find at startup: none, or a document written
\* by an earlier run for the first guild, for the second, or for both
StartFiles ==
    {MissingFile}
    \cup {JSONFile([servers |-> "object", members |-> [g \in {GuildList[1]} |-> o]]) :
            o \in StartObjects}
    \cup {JSONFile([servers |-> "object", members |-> [g \in ks |-> o]]) :
            ks \in {{GuildList[2]}, {GuildList[1], GuildList[2]}},
            o \in {MarshalServerConfig([ZeroServerConfig EXCEPT
                        !.MemberAuditChannelID = a]) : a \in AuditChannels}}

InitFlow ==
    /\ file \in StartFiles
    /\ loadErr = loadConfig(file).err
    /\ config = loadConfig(file).config
    /\ readers = {}
    /\ pc = [p \in Procs |-> "idle"]
    /\ cmd = [p \in Procs |-> NoCmd]
    /\ data = [p \in Procs |-> NoDoc]
    /\ saveErr = [p \in Procs |-> None]
    /\ reply = [p \in Procs |-> <<>>]
    /\ issued = 0
    /\ saveFailed = FALSE
    /\ InitFlowVars

(***************************************************************************)
(* A process started with no file or with the first guild configured: the  *)
(* start of the specifications in which only the entry of the guild, its   *)
(* audit channel and its role matter.                                      *)
(***************************************************************************)
HandlerFiles ==
    {MissingFile}
    \cup {JSONFile([servers |-> "object",
                    members |-> [g \in {GuildList[1]} |->
                        MarshalServerConfig([ZeroServerConfig EXCEPT
                            !.MemberAuditChannelID = a,
                            !.UnverifiedRoleID = r,
                            !.RateLimitEnabled = e,
                            !.RateLimitDuration = Minutes(1)])]]) :
            a \in AuditChannels, r \in Roles \cup {NoID}, e \in BOOLEAN}

InitHandlers ==
    /\ file \in HandlerFiles
    /\ loadErr = loadConfig(file).err
    /\ config = loadConfig(file).config
    /\ readers = {}
    /\ pc = [p \in Procs |-> "idle"]
    /\ cmd = [p \in Procs |-> NoCmd]
    /\ data = [p \in Procs |-> NoDoc]
    /\ saveErr = [p \in Procs |-> None]
    /\ reply = [p \in Procs |-> <<>>]
    /\ issued = 0
    /\ saveFailed = FALSE
    /\ InitFlowVars

\* what no step of a handler of the flow changes
flowFrame == <<loadErr, config, file, pc, cmd, data, saveErr, reply, issued, saveFailed,
               writer, run>>

\* time passes
Tick ==
    /\ now < MaxTime
    /\ now' = now + 1
    /\ UNCHANGED <<rateLimitMap, handler, platform, rateLimitLock, readers>>
    /\ UNCHANGED flowFrame

\* the handler of goroutine p: its next position, with call c made if any
Goes(p, position, cs) ==
    handler' = [handler EXCEPT ![p].pc = position, ![p].calls = @ \o cs]

(***************************************************************************)
(* memberDM and processEmailVerification, step by step.                    *)
(***************************************************************************)
\* rateLimitLock.Lock() granted whoever holds the lock
CanLockRateLimitIgnoringHolder(holder) == TRUE

\* rateLimitLock.Lock() is granted when no goroutine holds the lock
CanLockRateLimit(holder) == holder = None

\* the platform starts memberDM for a MessageCreate event, one of ms, in
\* goroutine p: it returns at once for a message of the bot and otherwise
\* calls s.Channel
DMReceive(p, ms) ==
    /\ handler[p].pc = "idle"
    /\ \E m \in ms :
         handler' = [handler EXCEPT ![p] =
                        [NoHandler EXCEPT !.pc = IF IsOwnMessage(m) THEN "returned"
                                                 ELSE "channel",
                                          !.event = m]]
    /\ UNCHANGED <<rateLimitMap, now, platform, rateLimitLock, readers>>
    /\ UNCHANGED flowFrame

\* s.Channel(m.ChannelID) returns: memberDM returns on an error and for a
\* channel that is no direct-message channel, and otherwise calls
\* processEmailVerification
DMGetChannel(p) ==
    /\ handler[p].pc = "channel"
    /\ LET m == handler[p].event
       IN  Goes(p, IF IsDirectMessage(m) THEN "lookup" ELSE "returned",
                <<ChannelCall(m.channelID, m.channelType # "error")>>)
    /\ UNCHANGED <<rateLimitMap, now, platform, rateLimitLock, readers>>
    /\ UNCHANGED flowFrame

\* configMutex.RLock(); serverConfig, exists := config.Servers[m.GuildID];
\* configMutex.RUnlock(); return when there is no entry
DMLookup(p) ==
    /\ handler[p].pc = "lookup"
    /\ writer = None
    /\ LET m == handler[p].event
           serverConfig == Lookup(config.Servers, m.guildID)
       IN  handler' = [handler EXCEPT
                          ![p].exists = Exists(config.Servers, m.guildID),
                          ![p].serverConfig = serverConfig,
                          ![p].pc = IF Exists(config.Servers, m.guildID)
                                    THEN LimiterEntry(serverConfig, m)
                                    ELSE "returned"]
    /\ UNCHANGED <<rateLimitMap, now, platform, rateLimitLock, readers>>
    /\ UNCHANGED flowFrame

\* rateLimitLock.Lock()
DMLock(p) ==
    /\ handler[p].pc = "limiter"
    /\ CanLockRateLimit(rateLimitLock)
    /\ rateLimitLock' = p
    /\ Goes(p, "locked", <<>>)
    /\ UNCHANGED <<rateLimitMap, now, platform, readers>>
    /\ UNCHANGED flowFrame

\* the check of the limiter with the time of a rejected attempt recorded too
DMCheckRecordingRejected(p) ==
    /\ handler[p].pc = "locked"
    /\ LET m == handler[p].event
       IN  IF TooSoon(rateLimitMap, m.author, now, handler[p].serverConfig.RateLimitDuration)
           THEN /\ rateLimitLock' = None
                /\ rateLimitMap' = Record(rateLimitMap, m.author, now)
                /\ handler' = [handler EXCEPT ![p].pc = "reject", ![p].now = now]
           ELSE /\ handler' = [handler EXCEPT ![p].pc = "record", ![p].now = now]
                /\ UNCHANGED <<rateLimitLock, rateLimitMap>>
    /\ UNCHANGED <<now, platform, readers>>
    /\ UNCHANGED flowFrame

\* lastTime, exists := rateLimitMap[m.Author.ID]; now := time.Now(); when
\* now is too soon after lastTime: rateLimitLock.Unlock() and the wait reply
DMCheck(p) ==
    /\ handler[p].pc = "locked"
    /\ LET m == handler[p].event
       IN  IF TooSoon(rateLimitMap, m.author, now, handler[p].serverConfig.RateLimitDuration)
           THEN /\ rateLimitLock' = None
                /\ handler' = [handler EXCEPT ![p].pc = "reject", ![p].now = now]
           ELSE /\ handler' = [handler EXCEPT ![p].pc = "record", ![p].now = now]
                /\ UNCHANGED rateLimitLock
    /\ UNCHANGED <<rateLimitMap, now, platform, readers>>
    /\ UNCHANGED flowFrame

\* rateLimitMap[m.Author.ID] = now; rateLimitLock.Unlock()
DMRecord(p) ==
    /\ handler[p].pc = "record"
    /\ rateLimitMap' = Record(rateLimitMap, handler[p].event.author, handler[p].now)
    /\ rateLimitLock' = None
    /\ handler' = [handler EXCEPT ![p].pc = Validate(handler[p].event), ![p].passed = TRUE]
    /\ UNCHANGED <<now, platform, readers>>
    /\ UNCHANGED flowFrame

\* the ChannelMessageSend of the wait reply or of the invalid-email reply
\* returns, and the handler with it
DMReply(p) ==
    /\ handler[p].pc \in {"reject", "invalid"}
    /\ \E ok \in BOOLEAN :
         LET m == handler[p].event
         IN  Goes(p, "returned",
                  IF handler[p].pc = "reject"
                  THEN <<WaitReplyCall(m.channelID,
                                       WaitMinutes(handler[p].serverConfig.RateLimitDuration),
                                       ok)>>
                  ELSE <<ChannelMessageSendCall(m.channelID, InvalidEmailText, ok)>>)
    /\ UNCHANGED <<rateLimitMap, now, platform, rateLimitLock, readers>>
    /\ UNCHANGED flowFrame

\* the GuildMember calls a handler has made
ScanOf(cs) == SelectSeq(cs, LAMBDA c : c.api = "GuildMember")

\* for _, guild := range s.State.Guilds: the next s.GuildMember returns; the
\* loop ends at the first guild the author is a member of, and the handler
\* returns when there is none
DMScan(p) ==
    /\ handler[p].pc = "scan"
    /\ LET m == handler[p].event
           scan == GuildScan(GuildList, m.author, m.memberOf)
           made == Len(ScanOf(handler[p].calls))
       IN  IF made = Len(scan) THEN Goes(p, "returned", <<>>)
           ELSE Goes(p, IF made + 1 < Len(scan) THEN "scan"
                        ELSE IF ScannedGuild(scan) = NoGuild THEN "returned"
                        ELSE "lookup2",
                     <<scan[made + 1]>>)
    /\ UNCHANGED <<rateLimitMap, now, platform, rateLimitLock, readers>>
    /\ UNCHANGED flowFrame

\* configMutex.RLock(); serverConfig = config.Servers[guildID];
\* configMutex.RUnlock()
DMLookup2(p) ==
    /\ handler[p].pc = "lookup2"
    /\ writer = None
    /\ handler' = [handler EXCEPT
                      ![p].serverConfig =
                          Lookup(config.Servers, ScannedGuild(ScanOf(handler[p].calls))),
                      ![p].pc = "post"]
    /\ UNCHANGED <<rateLimitMap, now, platform, rateLimitLock, readers>>
    /\ UNCHANGED flowFrame

\* the platform after call c of a handler that found guild g: a message sent
\* to a channel is there with its controls, under an id of its own, for the
\* user whose submission it reports
Posted(pf, c, g) ==
    IF c.ok /\ c.channel # NoID
    THEN [pf EXCEPT !.controls = @ \cup {PostedID(Len(pf.posts) + 1)},
                    !.posts = Append(@, [id |-> PostedID(Len(pf.posts) + 1),
                                         channel |-> c.channel, guild |-> g,
                                         user |-> c.user,
                                         components |-> c.components])]
    ELSE pf

\* s.ChannelMessageSendComplex(serverConfig.MemberAuditChannelID, ...)
\* returns, and the handler with it
DMPost(p) ==
    /\ handler[p].pc = "post"
    /\ \E ok \in BOOLEAN :
         LET m == handler[p].event
             c == ChannelMessageSendComplexCall(handler[p].serverConfig.MemberAuditChannelID,
                                                RequestText, m.author, m.content,
                                                AuditControls(m.author), ok)
         IN  /\ (c.ok /\ c.channel # NoID) => Len(platform.posts) < MaxPosts
             /\ Goes(p, "returned", <<c>>)
             /\ platform' = Posted(platform, c, ScannedGuild(ScanOf(handler[p].calls)))
    /\ UNCHANGED <<rateLimitMap, now, rateLimitLock, readers>>
    /\ UNCHANGED flowFrame

\* the goroutine ends
Return(p) ==
    /\ handler[p].pc = "returned"
    /\ handler' = [handler EXCEPT ![p] = NoHandler]
    /\ UNCHANGED <<rateLimitMap, now, platform, rateLimitLock, readers>>
    /\ UNCHANGED flowFrame

\* a step of memberDM in goroutine p, for the events ms
MemberDM(p, ms) ==
    \/ DMReceive(p, ms)
    \/ DMGetChannel(p)
    \/ DMLookup(p)
    \/ DMLock(p)
    \/ DMCheck(p)
    \/ DMRecord(p)
    \/ DMReply(p)
    \/ DMScan(p)
    \/ DMLookup2(p)
    \/ DMPost(p)

(***************************************************************************)
(* handleButton and guildMemberAdd, step by step.  The calls of a handler  *)
(* are those of its call sequence for the entry it has read and the calls  *)
(* that have failed; a step is the return of the next one.                 *)
(***************************************************************************)
\* the calls among cs that returned an error
Failed(cs) == {cs[k].api : k \in {j \in 1..Len(cs) : ~cs[j].ok}}

\* config.Servers as the handler knows it: the entry it has read, if any
View(hp) ==
    IF hp.exists THEN [g \in {hp.event.guildID} |-> hp.serverConfig] ELSE EmptyMap

\* the call sequence of the handler, were the calls named by fs to fail
CallsOf(hp, fs) ==
    IF hp.event.kind = "button" THEN handleButtonCalls(hp.event, View(hp), fs)
    ELSE guildMemberAddCalls(hp.event, View(hp), fs)

\* the next call has been made and has returned, with an error or not
NextCall(p) ==
    LET hp == handler[p]
        n == Len(hp.calls)
        fs == Failed(hp.calls)
        cs == CallsOf(hp, fs)
    IN  /\ n < Len(cs)
        /\ \E ok \in BOOLEAN :
             LET fs2 == IF ok THEN fs ELSE fs \cup {cs[n + 1].api}
                 cs2 == IF ok THEN cs ELSE CallsOf(hp, fs2)
             IN  /\ handler' = [handler EXCEPT
                       ![p].calls = Append(@, cs2[n + 1]),
                       ![p].pc = IF hp.pc = "locked" THEN "locked"
                                 ELSE IF cs2[n + 1].text = WelcomeDMText THEN "lookup"
                                 ELSE IF n + 1 = Len(cs2) THEN "returned"
                                 ELSE "calls"]
                 /\ platform' = Effects(platform, hp.event, <<cs2[n + 1]>>)

\* the clicks on the controls of the messages the handlers have posted
PostedClicks ==
    {[NoEvent EXCEPT !.kind = "button",
                     !.customID = platform.posts[k].components[c],
                     !.guildID = platform.posts[k].guild,
                     !.channelID = platform.posts[k].channel,
                     !.messageID = platform.posts[k].id] :
        k \in 1..Len(platform.posts), c \in 1..2}

\* a moderator clicks a control of a message that carries its controls: the
\* platform starts handleButton for the click, one of is, in goroutine p,
\* and the handler calls s.InteractionRespond
ButtonReceive(p, is) ==
    /\ handler[p].pc = "idle"
    /\ \E i \in is :
         /\ i.messageID \in platform.controls
         /\ handler' = [handler EXCEPT ![p] = [NoHandler EXCEPT !.pc = "calls", !.event = i]]
    /\ UNCHANGED <<rateLimitMap, now, platform, rateLimitLock, readers>>
    /\ UNCHANGED flowFrame

\* a call of handleButton returns while it does not hold configMutex
ButtonCall(p) ==
    /\ handler[p].event.kind = "button"
    /\ handler[p].pc = "calls"
    /\ NextCall(p)
    /\ UNCHANGED <<rateLimitMap, now, rateLimitLock, readers>>
    /\ UNCHANGED flowFrame

\* case "approve", after the welcome message: configMutex.RLock();
\* serverConfig, exists := config.Servers[i.GuildID]
ButtonLookup(p) ==
    /\ handler[p].pc = "lookup"
    /\ handler[p].event.kind = "button"
    /\ writer = None
    /\ readers' = readers \cup {p}
    /\ handler' = [handler EXCEPT
                      ![p].exists = Exists(config.Servers, handler[p].event.guildID),
                      ![p].serverConfig = Lookup(config.Servers, handler[p].event.guildID),
                      ![p].pc = "locked"]
    /\ UNCHANGED <<rateLimitMap, now, platform, rateLimitLock>>
    /\ UNCHANGED flowFrame

\* whether the handler, holding configMutex, has GuildMemberRoleRemove to call
RoleRemoveDue(hp) ==
    /\ Len(hp.calls) < Len(CallsOf(hp, Failed(hp.calls)))
    /\ CallsOf(hp, Failed(hp.calls))[Len(hp.calls) + 1].api = "GuildMemberRoleRemove"

\* s.GuildMemberRoleRemove returns, the handler holding configMutex.RLock()
ButtonLockedCall(p) ==
    /\ handler[p].pc = "locked"
    /\ RoleRemoveDue(handler[p])
    /\ NextCall(p)
    /\ UNCHANGED <<rateLimitMap, now, rateLimitLock, readers>>
    /\ UNCHANGED flowFrame

\* configMutex.RUnlock()
ButtonRUnlock(p) ==
    /\ handler[p].pc = "locked"
    /\ ~RoleRemoveDue(handler[p])
    /\ readers' = readers \ {p}
    /\ Goes(p, "calls", <<>>)
    /\ UNCHANGED <<rateLimitMap, now, platform, rateLimitLock>>
    /\ UNCHANGED flowFrame

\* a step of handleButton in goroutine p, for the clicks is
HandleButton(p, is) ==
    \/ ButtonReceive(p, is)
    \/ ButtonCall(p)
    \/ ButtonLookup(p)
    \/ ButtonLockedCall(p)
    \/ ButtonRUnlock(p)

\* the platform starts guildMemberAdd for a GuildMemberAdd event in goroutine
\* p: configMutex.RLock(); serverConfig, exists := config.Servers[m.GuildID];
\* configMutex.RUnlock(); return when there is no entry
JoinReceive(p) ==
    /\ handler[p].pc = "idle"
    /\ writer = None
    /\ \E m \in JoinEvents :
         handler' = [handler EXCEPT ![p] =
                        [NoHandler EXCEPT !.event = m,
                                          !.exists = Exists(config.Servers, m.guildID),
                                          !.serverConfig = Lookup(config.Servers, m.guildID),
                                          !.pc = IF Exists(config.Servers, m.guildID)
                                                 THEN "calls" ELSE "returned"]]
    /\ UNCHANGED <<rateLimitMap, now, platform, rateLimitLock, readers>>
    /\ UNCHANGED flowFrame

\* a call of guildMemberAdd returns
JoinCall(p) ==
    /\ handler[p].event.kind = "join"
    /\ handler[p].pc = "calls"
    /\ NextCall(p)
    /\ UNCHANGED <<rateLimitMap, now, rateLimitLock, readers>>
    /\ UNCHANGED flowFrame

\* a step of guildMemberAdd in goroutine p
GuildMemberAdd(p) == JoinReceive(p) \/ JoinCall(p)

\* a user sends the address once more: a direct message handled in a
\* goroutine of its own while the handler of another message runs
RepeatedMessages ==
    {[NoEvent EXCEPT !.kind = "message", !.author = u, !.guildID = GuildList[1],
                     !.channelID = DMChannel(u), !.channelType = "DM",
                     !.content = RequestContent, !.memberOf = Guilds] :
        u \in Users}

\* the messages goroutine p handles: those of ms in the first goroutine, the
\* repeated message in the others
MessagesOf(p, ms) == IF p = "h1" THEN ms ELSE RepeatedMessages

\* direct messages are handled while time passes
NextSubmission ==
    \/ Tick
    \/ \E p \in Procs : MemberDM(p, MessagesOf(p, MessageEvents)) \/ Return(p)

SpecSubmission == InitFlow /\ [][NextSubmission]_vars

\* clicks on controls are handled
NextButton == \E p \in Procs : HandleButton(p, ButtonEvents) \/ Return(p)

\* handleButton reads neither field of the rate limiter
InitButton ==
    /\ InitHandlers
    /\ \A g \in DOMAIN config.Servers : ~config.Servers[g].RateLimitEnabled

SpecButton == InitButton /\ [][NextButton]_vars

\* direct messages of every content are handled
NextEmail == \E p \in Procs : MemberDM(p, MessagesOf(p, EmailEvents)) \/ Return(p)

SpecEmail == InitHandlers /\ [][NextEmail]_vars

\* members join
NextJoin == \E p \in Procs : GuildMemberAdd(p) \/ Return(p)

SpecJoin == InitHandlers /\ [][NextJoin]_vars

(***************************************************************************)
(* From the post to the click: a submission is posted to the audit         *)
(* channel with its two controls, and a moderator clicks one of them.      *)
(* The user ids are whatever strings the platform hands over.              *)
(***************************************************************************)
AuthorIDs == {<<"1", "2">>, <<"1", "_", "2">>, <<"_">>}

\* direct messages of these users
RequestEvents ==
    {[NoEvent EXCEPT !.kind = "message", !.author = a, !.guildID = g,
                     !.channelID = DMChannel(a), !.channelType = "DM",
                     !.content = RequestContent, !.memberOf = ms] :
        a \in AuthorIDs, g \in {GuildList[1]}, ms \in {Guilds}}

\* the goroutine of the direct messages, and the goroutine of the clicks on
\* what it has posted
Poster == "h1"
Clicker == "h2"

NextRoundTrip ==
    \/ MemberDM(Poster, RequestEvents)
    \/ HandleButton(Clicker, PostedClicks)
    \/ \E p \in Procs : Return(p)

SpecRoundTrip == InitHandlers /\ [][NextRoundTrip]_vars

(***************************************************************************)
(* Direct messages of one user handled concurrently.                       *)
(***************************************************************************)
\* the messages handled concurrently: the direct messages of a user, with
\* an address or not, and one message of each kind that memberDM drops
ConcurrentEvents ==
    {e \in {[NoEvent EXCEPT !.kind = "message", !.author = a, !.guildID = g,
                            !.channelID = IF t = "guild text" THEN GuildTextChannel
                                          ELSE DMChannel(a),
                            !.channelType = t, !.content = c, !.memberOf = ms] :
                a \in Users \cup {BotID}, g \in Guilds, t \in {"DM", "guild text", "error"},
                c \in {RequestContent, <<"a">>}, ms \in {{}, Guilds}} :
        \/ ~IsOwnMessage(e) /\ IsDirectMessage(e)
        \/ e.guildID = GuildList[1] /\ e.content = RequestContent /\ e.memberOf = Guilds}

NextConcurrentDM ==
    \/ Tick
    \/ \E p \in Procs : MemberDM(p, ConcurrentEvents) \/ Return(p)

SpecConcurrentDM == InitHandlers /\ [][NextConcurrentDM]_vars

(***************************************************************************)
(* The uses of configMutex and of the config map, handler by handler.      *)
(* Each goroutine steps through the lock operations and the accesses to    *)
(* config.Servers of the handler it runs, in program order; the statements *)
(* between them touch neither and are not steps.  The write handlers end   *)
(* in saveConfig, whose failures are left to SpecAdmin.                    *)
(***************************************************************************)
NoRun == [name |-> "none", c |-> NoCmd, guild |-> NoGuild, pc |-> 0]

\* the handlers that use the map, with the guild (and command) they run for
Handlers ==
    {[name |-> c.name, c |-> c, guild |-> c.guild, pc |-> 1] : c \in Commands}
    \cup {[name |-> n, c |-> NoCmd, guild |-> g, pc |-> 1] :
            n \in {"check_rate_limit", "guildMemberAdd", "processEmailVerification",
                   "handleButton"},
            g \in Guilds}

\* accesses that read the map, and accesses that (may) write it
ReadOps == {"lookup", "marshal"}
WriteOps == {"ensure", "store"}

\* the handlers with the second lookup of processEmailVerification made
\* without the read lock
ProgramLookupUnlocked(name) ==
    CASE name = "check_rate_limit" ->
            <<"RLock", "lookup", "RUnlock", "call">>
      [] name = "guildMemberAdd" ->
            <<"RLock", "lookup", "RUnlock", "branch", "call">>
      [] name = "handleButton" ->
            <<"call", "branch", "call", "RLock", "lookup", "call", "RUnlock", "call">>
      [] name = "processEmailVerification" ->
            <<"RLock", "lookup", "RUnlock", "call", "branch", "lookup", "call">>
      [] name = "none" -> <<>>
      [] OTHER ->
            <<"Lock", "ensure", "lookup", "store", "Unlock",
              "RLock", "marshal", "OpenFile", "WriteFile", "RUnlock", "call">>

\* the lock operations and map accesses of each handler, in program order:
\* checkRateLimit, guildMemberAdd and the approve case of handleButton look
\* their guild up under RLock; processEmailVerification looks up
\* m.GuildID, may return, and looks up the guild it found; a write command
\* creates the entry if absent, reads it and stores it under Lock, then
\* saveConfig marshals, opens the file and writes it under RLock.  A "call"
\* is the
\* handler's outbound platform calls at that point: the reply of a command;
\* the role assignment and the welcome of guildMemberAdd; the replies and
\* the guild scan, then the audit post, of processEmailVerification; the
\* acknowledgement, the direct message, the role removal (made between the
\* lookup and RUnlock) and the edits of handleButton.
Program(name) ==
    CASE name = "check_rate_limit" ->
            <<"RLock", "lookup", "RUnlock", "call">>
      [] name = "guildMemberAdd" ->
            <<"RLock", "lookup", "RUnlock", "branch", "call">>
      [] name = "handleButton" ->
            <<"call", "branch", "call", "RLock", "lookup", "call", "RUnlock", "call">>
      [] name = "processEmailVerification" ->
            <<"RLock", "lookup", "RUnlock", "call", "branch", "RLock", "lookup", "RUnlock", "call">>
      [] name = "none" -> <<>>
      [] OTHER ->
            <<"Lock", "ensure", "lookup", "store", "Unlock",
              "RLock", "marshal", "OpenFile", "WriteFile", "RUnlock", "call">>

\* the operation goroutine p is about to execute
NextOp(p) ==
    IF run[p].pc \in 1..Len(Program(run[p].name))
    THEN Program(run[p].name)[run[p].pc]
    ELSE "done"

\* what no step of a handler's lock use changes
lockFrame ==
    <<loadErr, pc, cmd, saveErr, reply, saveFailed, rateLimitMap, now, handler,
      platform, rateLimitLock>>

\* the platform starts a handler in a goroutine
StartHandler(p) ==
    /\ loadErr = None
    /\ run[p].name = "none"
    /\ issued < MaxCmds
    /\ \E h \in Handlers : run' = [run EXCEPT ![p] = h]
    /\ issued' = issued + 1
    /\ UNCHANGED <<config, file, readers, data, writer>>
    /\ UNCHANGED lockFrame

\* configMutex.Lock(): granted when no goroutine holds the lock in either mode
Lock(p) ==
    /\ NextOp(p) = "Lock"
    /\ writer = None
    /\ CanLock(readers)
    /\ writer' = p
    /\ run' = [run EXCEPT ![p].pc = @ + 1]
    /\ UNCHANGED <<config, file, readers, data, issued>>
    /\ UNCHANGED lockFrame

\* configMutex.Unlock()
Unlock(p) ==
    /\ NextOp(p) = "Unlock"
    /\ writer' = None
    /\ run' = [run EXCEPT ![p].pc = @ + 1]
    /\ UNCHANGED <<config, file, readers, data, issued>>
    /\ UNCHANGED lockFrame

\* configMutex.RLock(): granted when no goroutine holds the lock exclusively
RLock(p) ==
    /\ NextOp(p) = "RLock"
    /\ writer = None
    /\ readers' = readers \cup {p}
    /\ run' = [run EXCEPT ![p].pc = @ + 1]
    /\ UNCHANGED <<config, file, data, issued, writer>>
    /\ UNCHANGED lockFrame

\* configMutex.RUnlock()
RUnlock(p) ==
    /\ NextOp(p) = "RUnlock"
    /\ readers' = readers \ {p}
    /\ run' = [run EXCEPT ![p].pc = @ + 1]
    /\ UNCHANGED <<config, file, data, issued, writer>>
    /\ UNCHANGED lockFrame

\* an access to config.Servers; only a write needs the map to be allocated
Access(p) ==
    /\ NextOp(p) \in ReadOps \cup WriteOps
    /\ NextOp(p) \in WriteOps => config.Allocated
    /\ config' = IF NextOp(p) = "ensure"
                 THEN [config EXCEPT !.Servers = EnsureEntry(@, run[p].guild)]
                 ELSE IF NextOp(p) = "store"
                      THEN [config EXCEPT !.Servers = CommandWrite(@, run[p].c)]
                      ELSE config
    /\ data' = IF NextOp(p) = "marshal" THEN [data EXCEPT ![p] = Marshal(config)] ELSE data
    /\ run' = [run EXCEPT ![p].pc =
                  IF /\ run[p].name = "handleButton"
                     /\ Lookup(config.Servers, run[p].guild).UnverifiedRoleID = NoID
                  THEN @ + 2
                  ELSE @ + 1]
    /\ UNCHANGED <<file, readers, issued, writer>>
    /\ UNCHANGED lockFrame

\* saveConfig's os.MkdirAll and the opening of the file by os.WriteFile
\* (O_TRUNC): when either fails saveConfig returns with the file as it was
OpenFile(p) ==
    /\ NextOp(p) = "OpenFile"
    /\ \E ok \in BOOLEAN :
         /\ file' = IF ok THEN TruncatedFile ELSE file
         /\ run' = [run EXCEPT ![p].pc = IF ok THEN @ + 1 ELSE @ + 2]
    /\ UNCHANGED <<config, readers, data, issued, writer>>
    /\ UNCHANGED lockFrame

\* the write and close of os.WriteFile: the document is written, or nothing
\* is, or its first bytes only
WriteFile(p) ==
    /\ NextOp(p) = "WriteFile"
    /\ file' \in {JSONFile(data[p]), file, PartialFile}
    /\ run' = [run EXCEPT ![p].pc = @ + 1]
    /\ UNCHANGED <<config, readers, data, issued, writer>>
    /\ UNCHANGED lockFrame

\* an outbound platform call returns: until this step the call is in flight
Call(p) ==
    /\ NextOp(p) = "call"
    /\ run' = [run EXCEPT ![p].pc = @ + 1]
    /\ UNCHANGED <<config, file, readers, data, issued, writer>>
    /\ UNCHANGED lockFrame

\* the handler returns early (no entry for the guild; rate limited, invalid
\* address or no guild found; failed acknowledgement or invalid identifier)
\* or goes on
Branch(p) ==
    /\ NextOp(p) = "branch"
    /\ \E k \in {run[p].pc + 1, Len(Program(run[p].name)) + 1} :
         run' = [run EXCEPT ![p].pc = k]
    /\ UNCHANGED <<config, file, readers, data, issued, writer>>
    /\ UNCHANGED lockFrame

\* the handler returns
EndHandler(p) ==
    /\ run[p].name # "none"
    /\ NextOp(p) = "done"
    /\ run' = [run EXCEPT ![p] = NoRun]
    /\ data' = [data EXCEPT ![p] = NoDoc]
    /\ UNCHANGED <<config, file, readers, issued, writer>>
    /\ UNCHANGED lockFrame

NextLocks ==
    \E p \in Procs :
        \/ StartHandler(p)
        \/ Lock(p)
        \/ Unlock(p)
        \/ RLock(p)
        \/ RUnlock(p)
        \/ Access(p)
        \/ OpenFile(p)
        \/ WriteFile(p)
        \/ Call(p)
        \/ Branch(p)
        \/ EndHandler(p)

SpecLocks == InitAdmin /\ [][NextLocks]_vars

(***************************************************************************)
(* The three event handlers together: users join and send their address   *)
(* while a moderator clicks.                                               *)
(***************************************************************************)
NextHandlers ==
    \/ MemberDM(Poster, RepeatedMessages)
    \/ GuildMemberAdd(Poster)
    \/ HandleButton(Clicker, ButtonEvents)
    \/ \E p \in Procs : Return(p)

SpecHandlers == InitHandlers /\ [][NextHandlers]_vars

(***************************************************************************)
(* Submissions while an administrator turns the rate limit of the first    *)
(* guild on and off, one command at a time: a command can run between a    *)
(* handler's lookup of its entry and its use of the copy.                  *)
(***************************************************************************)
Admin == "h1"

\* enable_rate_limit or disable_rate_limit in the first guild
ToggleWrite ==
    /\ CommandLockedWrite(Admin)
    /\ cmd'[Admin].name \in {"enable_rate_limit", "disable_rate_limit"}
    /\ cmd'[Admin].guild = GuildList[1]

NextToggle ==
    \/ Tick
    \/ \E p \in Procs \ {Admin} : MemberDM(p, RepeatedMessages) \/ Return(p)
    \/ ToggleWrite
    \/ SaveMarshal(Admin)
    \/ SaveOpen(Admin)
    \/ SaveWrite(Admin)
    \/ CommandRespond(Admin)

SpecToggle == InitHandlers /\ [][NextToggle]_vars

(***************************************************************************)
(* Claims on the verification flow.                                        *)
(***************************************************************************)
\* the positions in the call log cs of the calls to an API
CallsTo(cs, api) == {k \in 1..Len(cs) : cs[k].api = api}

\* the identifier <action>_<userId>
ControlID(action, u) == action \o <<Separator>> \o u

\* the handler has returned from a click on the control <action>_<u>
Clicked(hp, action, u) ==
    /\ hp.pc = "returned"
    /\ hp.event.kind = "button"
    /\ hp.event.customID = ControlID(action, u)

\* the handler has returned from a direct message of a user, which memberDM
\* handed to processEmailVerification
Submitted(hp) ==
    /\ hp.pc = "returned"
    /\ hp.event.kind = "message"
    /\ hp.event.author # BotID
    /\ hp.event.channelType = "DM"

\* the guilds the sender belongs to whose config has an audit channel
AuditGuilds(m) ==
    {g \in m.memberOf : Lookup(config.Servers, g).MemberAuditChannelID # NoID}

\* C1 as stated, for a direct message as the platform delivers it (with an
\* empty guild id): if the sender is a member of a guild whose config has
\* an audit channel, the message is not rate-limited and its content
\* matches the email pattern, then the handler, by the time it returns, has
\* posted one message carrying the controls approve_<userId> and
\* deny_<userId> to that guild's audit channel.
C1_ValidSubmissionIsPosted ==
    \A p \in Procs :
        LET calls == handler[p].calls
            event == handler[p].event
        IN  (/\ Submitted(handler[p])
             /\ event.guildID = NoGuild
             /\ AuditGuilds(event) # {}
             /\ \A k \in CallsTo(calls, "ChannelMessageSend") : calls[k].text # WaitText
             /\ MatchString(event.content))
            => \E g \in AuditGuilds(event) :
                  /\ Cardinality(CallsTo(calls, "ChannelMessageSendComplex")) = 1
                  /\ \A k \in CallsTo(calls, "ChannelMessageSendComplex") :
                        /\ calls[k].channel = config.Servers[g].MemberAuditChannelID
                        /\ calls[k].components =
                              <<ControlID(approve, event.author), ControlID(deny, event.author)>>

\* C2: a handler that has returned from a click on approve_<userId> has
\* removed no member, and when its deferred acknowledgement and its opening
\* of the direct channel succeeded it has sent the welcome direct message to
\* that user, has called for the removal of the unverified role of the guild
\* from the user exactly when the guild has one configured, has edited the
\* original message to the approval line with no controls, and has last
\* edited the acknowledgement to the completion text.
C2_ApproveEffects ==
    \A p \in Procs : \A u \in Users :
        LET calls == handler[p].calls
            event == handler[p].event
        IN  Clicked(handler[p], approve, u) =>
              /\ CallsTo(calls, "GuildMemberDelete") = {}
              /\ (Len(calls) >= 2 /\ calls[1].ok /\ calls[2].ok) =>
                    /\ calls[2] = UserChannelCreateCall(u, TRUE)
                    /\ \E k \in CallsTo(calls, "ChannelMessageSend") :
                          /\ calls[k].channel = DMChannel(u)
                          /\ calls[k].text = WelcomeDMText
                    /\ LET sc == Lookup(config.Servers, event.guildID)
                       IN  IF sc.UnverifiedRoleID # NoID
                           THEN \E k \in CallsTo(calls, "GuildMemberRoleRemove") :
                                   /\ calls[k].guild = event.guildID
                                   /\ calls[k].user = u
                                   /\ calls[k].role = sc.UnverifiedRoleID
                           ELSE CallsTo(calls, "GuildMemberRoleRemove") = {}
                    /\ \E k \in CallsTo(calls, "ChannelMessageEditComplex") :
                          /\ calls[k].channel = event.channelID
                          /\ calls[k].message = event.messageID
                          /\ calls[k].text = ApprovedText
                          /\ calls[k].user = u
                          /\ calls[k].components = <<>>
                    /\ calls[Len(calls)].api = "InteractionResponseEdit"
                    /\ calls[Len(calls)].text = CompletionText

\* C2 witness: an approve has run to its end in a guild with an unverified
\* role, every call succeeding.
C2_Witness ==
    \E p \in Procs : \E u \in Users :
        LET calls == handler[p].calls
        IN  /\ Clicked(handler[p], approve, u)
            /\ CallsTo(calls, "GuildMemberRoleRemove") # {}
            /\ \A k \in 1..Len(calls) : calls[k].ok
            /\ calls[Len(calls)].text = CompletionText

\* C3: in a handler that has returned from a click on deny_<userId>, a
\* failed removal of the member is followed by one last call, the edit of
\* the acknowledgement to the error text, and the audit message is not
\* edited.
C3_DenyRemovalFailure ==
    \A p \in Procs : \A u \in Users :
        LET calls == handler[p].calls
        IN  Clicked(handler[p], deny, u) =>
              \A k \in CallsTo(calls, "GuildMemberDelete") : ~calls[k].ok =>
                  /\ Len(calls) = k + 1
                  /\ calls[k + 1].api = "InteractionResponseEdit"
                  /\ calls[k + 1].text = DenialErrorText
                  /\ CallsTo(calls, "ChannelMessageEditComplex") = {}

\* C3 witness: a deny whose member removal failed has returned, the clicked
\* message still carrying its controls.
C3_Witness ==
    \E p \in Procs : \E u \in Users :
        LET calls == handler[p].calls
            event == handler[p].event
        IN  /\ Clicked(handler[p], deny, u)
            /\ \E k \in CallsTo(calls, "GuildMemberDelete") :
                  ~calls[k].ok /\ calls[k].guild = event.guildID /\ calls[k].user = u
            /\ event.messageID \in platform.controls

\* C4: in a handler of a click on deny_<userId>, at every moment, the
\* denial direct message has been sent before the member is removed, the
\* audit message is edited (to the denial line, without controls) only
\* after a successful removal, and no role is added or removed; once the
\* handler has returned, a successful removal has been followed by that
\* edit.
C4_DenyOrder ==
    \A p \in Procs : \A u \in Users :
        LET calls == handler[p].calls
            event == handler[p].event
        IN  (event.kind = "button" /\ event.customID = ControlID(deny, u)) =>
              /\ \A k \in CallsTo(calls, "GuildMemberDelete") :
                    /\ calls[k].guild = event.guildID
                    /\ calls[k].user = u
                    /\ \E j \in 1..(k - 1) :
                          /\ calls[j].api = "ChannelMessageSend"
                          /\ calls[j].channel = DMChannel(u)
                          /\ calls[j].text = DenialDMText
                    /\ (calls[k].ok /\ handler[p].pc = "returned") =>
                          \E j \in (k + 1)..Len(calls) :
                              calls[j].api = "ChannelMessageEditComplex"
              /\ \A k \in CallsTo(calls, "ChannelMessageEditComplex") :
                    /\ calls[k].text = DeniedText
                    /\ calls[k].message = event.messageID
                    /\ calls[k].components = <<>>
                    /\ \E j \in 1..(k - 1) : calls[j].api = "GuildMemberDelete" /\ calls[j].ok
              /\ CallsTo(calls, "GuildMemberRoleRemove") = {}
              /\ CallsTo(calls, "GuildMemberRoleAdd") = {}

\* C4 witness: a deny has run to its end, every call succeeding.
C4_Witness ==
    \E p \in Procs : \E u \in Users :
        LET calls == handler[p].calls
        IN  /\ Clicked(handler[p], deny, u)
            /\ CallsTo(calls, "GuildMemberDelete") # {}
            /\ CallsTo(calls, "ChannelMessageEditComplex") # {}
            /\ \A k \in 1..Len(calls) : calls[k].ok

\* the identifier has not exactly one separator, or what precedes its
\* first separator is neither approve nor deny
NotAControlID(id) ==
    \/ Cardinality({k \in 1..Len(id) : id[k] = Separator}) # 1
    \/ \A a \in {approve, deny} : SubSeq(id, 1, Len(a) + 1) # a \o <<Separator>>

\* C5: the handler of a click whose identifier does not split into exactly
\* two parts on '_' or whose first part is neither approve nor deny never
\* removes a role, removes a member, sends a direct message or edits the
\* audit message.
C5_MalformedIDNoEffect ==
    \A p \in Procs :
        LET calls == handler[p].calls
            event == handler[p].event
        IN  (event.kind = "button" /\ NotAControlID(event.customID)) =>
              \A k \in 1..Len(calls) :
                  calls[k].api \notin {"GuildMemberRoleRemove", "GuildMemberRoleAdd",
                                       "GuildMemberDelete", "UserChannelCreate",
                                       "ChannelMessageSend", "ChannelMessageEditComplex"}

\* C5 witness: a click with an identifier of three parts was acknowledged
\* and its handler has returned.
C5_Witness ==
    \E p \in Procs :
        LET calls == handler[p].calls
            event == handler[p].event
        IN  /\ handler[p].pc = "returned"
            /\ event.kind = "button"
            /\ Cardinality({k \in 1..Len(event.customID) : event.customID[k] = Separator}) = 2
            /\ SubSeq(event.customID, 1, Len(approve)) = approve
            /\ Len(calls) = 1
            /\ calls[1].ok

\* C6 as stated: for a click whose identifier does not split into exactly
\* two parts or whose action is neither approve nor deny, the deferred
\* acknowledgement, once sent, has been edited to "Unknown action" by the
\* time the handler returns.
C6_MalformedIDAcknowledged ==
    \A p \in Procs :
        LET calls == handler[p].calls
            event == handler[p].event
        IN  (/\ handler[p].pc = "returned"
             /\ event.kind = "button"
             /\ NotAControlID(event.customID)
             /\ calls # <<>>
             /\ calls[1].ok)
            => /\ calls[Len(calls)].api = "InteractionResponseEdit"
               /\ calls[Len(calls)].text = UnknownActionText

\* goroutine p, handling a direct message and holding rateLimitLock, makes
\* the check of the rate limiter in this step
LimiterChecks(p) ==
    /\ handler[p].event.kind = "message"
    /\ handler[p].pc = "locked"
    /\ handler'[p].pc # "locked"

\* goroutine p, its submission allowed, records the time of its check in
\* this step
LimiterRecords(p) ==
    /\ handler[p].event.kind = "message"
    /\ handler[p].pc = "record"
    /\ handler'[p].pc # "record"

\* goroutine p, its submission rejected, sends the wait reply in this step
LimiterReplies(p) ==
    /\ handler[p].event.kind = "message"
    /\ handler[p].pc = "reject"
    /\ handler'[p].pc # "reject"

\* the check of this step lets the submission of goroutine p pass
Allowed(p) == handler'[p].pc = "record" /\ handler'[p].now = now

\* the check of this step rejects the submission of goroutine p
Rejected(p) == handler'[p].pc = "reject" /\ rateLimitMap' = rateLimitMap

\* the step of goroutine p is the wait reply, stating at least lo and at
\* most hi minutes, and the return of the handler
RepliesStating(p, lo, hi) ==
    /\ rateLimitMap' = rateLimitMap
    /\ handler'[p].pc = "returned"
    /\ Len(handler'[p].calls) = Len(handler[p].calls) + 1
    /\ LET c == handler'[p].calls[Len(handler'[p].calls)]
       IN  /\ c.api = "ChannelMessageSend"
           /\ c.channel = handler[p].event.channelID
           /\ c.text = WaitText
           /\ c.minutes > 0
           /\ lo <= c.minutes
           /\ c.minutes <= hi

\* what the limiter does with a submission, D being the duration of the
\* entry the handler read: it allows the submission of a user with no
\* recorded timestamp, rejects one less than D after the recorded
\* timestamp without touching the map, and allows one at least D after it;
\* an allowed submission has the time of its check recorded
LimiterDecides(p) ==
    LET u == handler[p].event.author
        D == handler[p].serverConfig.RateLimitDuration
    IN  /\ LimiterChecks(p) =>
              IF u \notin DOMAIN rateLimitMap THEN Allowed(p)
              ELSE IF Longer(D, now - rateLimitMap[u]) THEN Rejected(p)
              ELSE Allowed(p)
        /\ LimiterRecords(p) =>
              /\ u \in DOMAIN rateLimitMap'
              /\ rateLimitMap'[u] = handler[p].now

\* C7 as stated: with rate limiting enabled and duration D, a submission of
\* a user with no recorded timestamp is allowed; one less than D after the
\* recorded timestamp is rejected with a reply stating the positive
\* remaining wait, D minus the elapsed time (in minutes, rounded either
\* way); one at least D after it is allowed.  The durations of the
\* specification are whole units of time.
C7_RemainingWaitStated ==
    [][\A p \in Procs :
          /\ LimiterDecides(p)
          /\ LimiterReplies(p) =>
                LET u == handler[p].event.author
                    D == handler[p].serverConfig.RateLimitDuration
                    remaining == D.units - (handler[p].now - rateLimitMap[u])
                IN  RepliesStating(p, remaining \div Minute,
                                   (remaining + Minute - 1) \div Minute)]_vars

\* C7 amended: the same, an allowed submission having its time recorded and
\* a rejected one leaving the recorded timestamp as it is, except that the
\* reply of a rejected submission states the whole configured duration D in
\* minutes, not what remains of it.
C7_ConfiguredDurationStated ==
    [][\A p \in Procs :
          /\ LimiterDecides(p)
          /\ LimiterReplies(p) =>
                LET D == handler[p].serverConfig.RateLimitDuration
                IN  RepliesStating(p, InMinutes(D), InMinutes(D))]_vars

\* C7 witness: a submission has been rejected a full minute after the
\* recorded one.
C7_Witness ==
    \E p \in Procs :
        LET calls == handler[p].calls
            u == handler[p].event.author
        IN  /\ Submitted(handler[p])
            /\ \E k \in CallsTo(calls, "ChannelMessageSend") : calls[k].text = WaitText
            /\ u \in DOMAIN rateLimitMap
            /\ handler[p].now - rateLimitMap[u] >= Minute

\* C7 witness of the third case: a submission has been allowed at least D
\* after the one the other goroutine had recorded.
C7_WitnessAllowedAgain ==
    \E p \in Procs, q \in Procs :
        LET D == handler[p].serverConfig.RateLimitDuration
        IN  /\ p # q
            /\ handler[p].passed
            /\ handler[q].passed
            /\ handler[q].pc = "returned"
            /\ handler[p].event.author = handler[q].event.author
            /\ Longer(D, 0)
            /\ handler[p].now - handler[q].now >= D.units
            /\ rateLimitMap[handler[p].event.author] = handler[p].now

(***************************************************************************)
(* Claims on the config store.                                             *)
(***************************************************************************)
ConfigFields ==
    {"MemberAuditChannelID", "UnverifiedRoleID", "RateLimitEnabled", "RateLimitDuration"}

\* the field a command names
NamedField(name) ==
    CASE name = "set_member_audit_channel" -> "MemberAuditChannelID"
      [] name = "set_unverified_role"      -> "UnverifiedRoleID"
      [] name = "enable_rate_limit"        -> "RateLimitEnabled"
      [] name = "disable_rate_limit"       -> "RateLimitEnabled"
      [] name = "set_rate_limit"           -> "RateLimitDuration"

\* the fields in which two entries differ
Differing(a, b) == {f \in ConfigFields : a[f] # b[f]}

\* goroutine p makes the write of its command in this step
Writes(p) == pc[p] = "idle" /\ pc'[p] = "save"

\* C8 as stated: after an admin write command in guild g, the config of g
\* (an absent entry counting as all-default) differs from the one before in
\* no field but the one the command names.
C8_OnlyNamedFieldChanges ==
    [][\A p \in Procs : Writes(p) =>
          LET g == cmd'[p].guild
          IN  Differing(Lookup(config.Servers, g), Lookup(config'.Servers, g))
                \subseteq {NamedField(cmd'[p].name)}]_vars

\* C8 amended: the command gives its named field the value it carries (for
\* set_rate_limit the product minutes * time.Minute as the program computes
\* it) and changes no other field of g, except that enable_rate_limit also
\* sets the duration to 5 minutes when the stored duration is zero.
C8_NamedFieldAndEnableDefault ==
    [][\A p \in Procs : Writes(p) =>
          LET c == cmd'[p]
              before == Lookup(config.Servers, c.guild)
              after == Lookup(config'.Servers, c.guild)
              defaulted == c.name = "enable_rate_limit" /\ before.RateLimitDuration = Dur(0)
          IN  /\ Exists(config'.Servers, c.guild)
              /\ Differing(before, after) \subseteq
                    {NamedField(c.name)} \cup
                    (IF defaulted THEN {"RateLimitDuration"} ELSE {})
              /\ defaulted => after.RateLimitDuration = Minutes(DefaultRateLimitMinutes)
              /\ after[NamedField(c.name)] =
                    (CASE c.name \in {"set_member_audit_channel",
                                      "set_unverified_role"} -> c.id
                       [] c.name = "enable_rate_limit" -> TRUE
                       [] c.name = "disable_rate_limit" -> FALSE
                       [] c.name = "set_rate_limit" -> Minutes(c.minutes))]_vars

\* C8 witness: disable_rate_limit has just acted on an entry that holds a
\* stored duration, and the duration is still there.
C8_Witness ==
    \E p \in Procs :
        /\ pc[p] = "save"
        /\ cmd[p].name = "disable_rate_limit"
        /\ Exists(config.Servers, cmd[p].guild)
        /\ config.Servers[cmd[p].guild].RateLimitDuration = Minutes(MaxMinutes)

\* no admin command is between its in-memory write and the return of its save
Quiescent == \A p \in Procs : pc[p] \in {"idle", "respond"}

\* C9: whenever no admin command is between its write and the return of its
\* save and no save has failed, a fresh load of the file gives the in-memory
\* config, whatever the interleaving of the concurrent commands.
C9_DurableAtQuiescence ==
    (Quiescent /\ ~saveFailed) => loadConfig(file) = [err |-> None, config |-> config]

\* C9 witness: two commands ran concurrently, both saves have just returned
\* without error and each wrote a different entry.
C9_Witness ==
    /\ \A p \in Procs : pc[p] = "respond"
    /\ ~saveFailed
    /\ \A p \in Procs, q \in Procs : p # q => cmd[p].guild # cmd[q].guild
    /\ file.state = "json"

\* C10: when saveConfig returns without error, a fresh loadConfig of the file
\* it wrote returns no error and the config that was saved, guild for guild
\* and field for field.
C10_SaveLoadRoundTrip ==
    [][\A p \in Procs :
          (pc[p] = "opened" /\ pc'[p] = "respond" /\ saveErr'[p] = None) =>
              loadConfig(file') = [err |-> None, config |-> config]]_vars

\* C10 witness: a save has returned without error and the file it wrote
\* holds an entry with rate limiting enabled and the default duration.
C10_Witness ==
    \E p \in Procs, g \in Guilds :
        /\ pc[p] = "respond"
        /\ saveErr[p] = None
        /\ file = JSONFile(data[p])
        /\ g \in DOMAIN file.doc.members
        /\ file.doc.members[g].rate_limit_enabled
        /\ file.doc.members[g].rate_limit_duration = Minutes(DefaultRateLimitMinutes)

\* C11 as stated: at every point in time, a save in progress or interrupted
\* included, the file holds a complete document (or, before the first save,
\* does not exist): it is never empty or partial.
C11_FileAlwaysComplete == file.state \in {"missing", "json"}

(***************************************************************************)
(* Claims on startup.                                                      *)
(***************************************************************************)
\* main's loadConfig() returns in this step
Loads == loadErr = NotLoaded /\ loadErr' # NotLoaded

\* C12: loadConfig() with no persisted file returns no error and leaves the
\* config an initialised map with no entries; it returns an error only when
\* the file exists and cannot be read or does not hold JSON.
C12_LoadMissingOrFail ==
    [][Loads =>
          /\ file.state = "missing" =>
                /\ loadErr' = None
                /\ config'.Allocated
                /\ DOMAIN config'.Servers = {}
          /\ loadErr' # None =>
                file.state \in {"unreadable", "truncated", "partial", "malformed"}]_vars

\* C12 witness: after a load with no persisted file, a command has written
\* its entry into the map.
C12_Witness ==
    /\ loadErr = None
    /\ file.state = "missing"
    /\ \E p \in Procs : pc[p] = "save" /\ Exists(config.Servers, cmd[p].guild)

(***************************************************************************)
(* Claims on joining.                                                      *)
(***************************************************************************)
\* C13 as stated: on every member-joined event for guild g, the unverified
\* role is assigned to the new member exactly when g has one configured
\* (never when g has no entry), and in every case the bot then opens a
\* direct channel with the member and, once it is open, sends the
\* instructional message there, before the handler returns.
C13_JoinAlwaysInstructed ==
    \A p \in Procs :
        LET calls == handler[p].calls
            event == handler[p].event
        IN  (handler[p].pc = "returned" /\ event.kind = "join") =>
              LET sc == Lookup(config.Servers, event.guildID)
              IN  /\ IF sc.UnverifiedRoleID # NoID
                     THEN \E k \in CallsTo(calls, "GuildMemberRoleAdd") :
                             /\ calls[k].guild = event.guildID
                             /\ calls[k].user = event.author
                             /\ calls[k].role = sc.UnverifiedRoleID
                     ELSE CallsTo(calls, "GuildMemberRoleAdd") = {}
                  /\ \E k \in CallsTo(calls, "UserChannelCreate") :
                        /\ calls[k].user = event.author
                        /\ \A j \in CallsTo(calls, "GuildMemberRoleAdd") : j < k
                        /\ calls[k].ok =>
                              /\ Len(calls) = k + 1
                              /\ calls[k + 1].api = "ChannelMessageSend"
                              /\ calls[k + 1].channel = DMChannel(event.author)
                              /\ calls[k + 1].text = InstructionText

(***************************************************************************)
(* Claims on the checks of a submission.                                   *)
(***************************************************************************)
\* the handler has returned from a submission for which it found a config
\* entry under the guild id of the message and sent no wait reply
PassedLimiter(hp) ==
    /\ Submitted(hp)
    /\ Exists(config.Servers, hp.event.guildID)
    /\ \A k \in CallsTo(hp.calls, "ChannelMessageSend") : hp.calls[k].text # WaitText

\* the guild the sender is resolved to: the first guild of the bot of which
\* the sender is a member
ResolvedGuild(m) == ScannedGuild(GuildScan(GuildList, m.author, m.memberOf))

\* C14 as stated: for a valid submission that is not rate-limited and whose
\* sender is resolved to guild g, if g has no audit channel configured
\* (empty field or no entry) no post and no reply is attempted; if g has
\* one, the post to it is attempted.
C14_NoAuditChannelAbortsSilently ==
    \A p \in Procs :
        LET calls == handler[p].calls
            event == handler[p].event
        IN  (/\ PassedLimiter(handler[p])
             /\ MatchString(event.content)
             /\ ResolvedGuild(event) # NoGuild)
            => LET channel == Lookup(config.Servers, ResolvedGuild(event)).MemberAuditChannelID
               IN  IF channel = NoID
                   THEN /\ CallsTo(calls, "ChannelMessageSendComplex") = {}
                        /\ CallsTo(calls, "ChannelMessageSend") = {}
                   ELSE \E k \in CallsTo(calls, "ChannelMessageSendComplex") :
                           calls[k].channel = channel

(***************************************************************************)
(* Claims on the terminal states.                                          *)
(***************************************************************************)
\* C15 as stated: over every sequence and interleaving of clicks on the
\* controls of the audit messages pending for a user, the user is never
\* both approved (the welcome message delivered and the unverified role
\* removed) and denied (removed from the guild).
C15_ApprovedAndDeniedExclusive ==
    \A u \in Users :
        ~(u \in platform.welcomed /\ u \in platform.unroled /\ u \in platform.removed)

(***************************************************************************)
(* Claims on the email pattern.                                            *)
(***************************************************************************)
\* the content is a non-empty local part of letters, digits and . _ % + -
\* followed by exactly @uclan.ac.uk, with nothing before or after
IsUclanAddress(c) ==
    LET n == Len(c) - Len(EmailDomain)
    IN  /\ n >= 1
        /\ \A i \in 1..n : c[i] \in LocalPartChars
        /\ \A i \in 1..Len(EmailDomain) : c[n + i] = EmailDomain[i]

\* the handler has returned from a submission that the rate limiter, the
\* check before the pattern, did not reject: it sent no wait reply
NotRateLimited(hp) ==
    /\ Submitted(hp)
    /\ \A k \in CallsTo(hp.calls, "ChannelMessageSend") : hp.calls[k].text # WaitText

\* C16 as stated: a direct message is accepted as an email, going on to the
\* search of the sender's guild, iff its whole content is such an address;
\* every other content gets the invalid-email reply in its channel and
\* nothing else: no audit post.
C16_AcceptedIffUclanAddress ==
    \A p \in Procs :
        LET calls == handler[p].calls
            event == handler[p].event
        IN  NotRateLimited(handler[p]) =>
              IF IsUclanAddress(event.content)
              THEN /\ \A k \in CallsTo(calls, "ChannelMessageSend") :
                         calls[k].text # InvalidEmailText
                   /\ CallsTo(calls, "GuildMember") # {}
              ELSE /\ Len(calls) = 2
                   /\ calls[2].api = "ChannelMessageSend"
                   /\ calls[2].channel = event.channelID
                   /\ calls[2].text = InvalidEmailText
                   /\ CallsTo(calls, "ChannelMessageSendComplex") = {}

(***************************************************************************)
(* Claims on the order of the checks and on the rate-limit entries.        *)
(***************************************************************************)
\* the handler has made its channel lookup and then sent this text, and
\* nothing else, to the channel of the message
OnlyReply(hp, text) ==
    /\ Len(hp.calls) = 2
    /\ hp.calls[2].api = "ChannelMessageSend"
    /\ hp.calls[2].channel = hp.event.channelID
    /\ hp.calls[2].text = text

\* the handler is in processEmailVerification before the second lookup, so
\* that serverConfig is the entry found under the guild id of the message
BeforeScan(hp) ==
    /\ hp.event.kind = "message"
    /\ hp.pc \in {"limiter", "locked", "record", "reject", "invalid", "scan"}

\* C17: a submission that comes within the duration of the recorded one,
\* rate limiting being enabled in the entry read, is rejected at the check
\* of the limiter whatever its content; the pattern is tried only once the
\* limiter is behind, passed when the entry read has rate limiting enabled;
\* a rejected submission gets the wait reply and one that fails the pattern
\* the invalid-email reply, and neither causes any other call: no audit post.
C17_RateLimitBeforePattern ==
    [][\A p \in Procs :
          LET hp == handler'[p]
              u == handler[p].event.author
          IN  /\ (/\ LimiterChecks(p)
                  /\ u \in DOMAIN rateLimitMap
                  /\ Longer(handler[p].serverConfig.RateLimitDuration, now - rateLimitMap[u]))
                 => hp.pc = "reject"
              /\ (BeforeScan(hp) /\ hp.pc \in {"invalid", "scan"}
                    /\ hp.serverConfig.RateLimitEnabled) => hp.passed
              /\ (BeforeScan(hp) /\ hp.pc = "invalid") => ~IsUclanAddress(hp.event.content)
              /\ (BeforeScan(hp) /\ hp.pc = "scan") => IsUclanAddress(hp.event.content)
              /\ (BeforeScan(handler[p]) /\ hp.pc = "returned") =>
                    CASE handler[p].pc = "reject" -> OnlyReply(hp, WaitText)
                      [] handler[p].pc = "invalid" -> OnlyReply(hp, InvalidEmailText)
                      [] OTHER -> handler[p].pc = "scan"]_vars

\* C17 witness: a submission whose content is not an address was
\* rate-limited and got the wait reply.
C17_Witness ==
    \E p \in Procs :
        LET calls == handler[p].calls
        IN  /\ Submitted(handler[p])
            /\ ~IsUclanAddress(handler[p].event.content)
            /\ OnlyReply(handler[p], WaitText)

\* the entry of user u is set to time t, the other entries are kept
Recorded(u, t) ==
    /\ DOMAIN rateLimitMap' = (DOMAIN rateLimitMap) \cup {u}
    /\ rateLimitMap'[u] = t
    /\ \A x \in (DOMAIN rateLimitMap) \ {u} : rateLimitMap'[x] = rateLimitMap[x]

\* the handler of a direct message of a user, handed to
\* processEmailVerification, returns in this step
AttemptEnds(p) ==
    /\ handler[p].pc # "returned"
    /\ Submitted(handler'[p])

\* C18 as stated: every verification attempt of a user has set the user's
\* entry to the time of the attempt when its handler returns, allowed or
\* rejected, rate limiting enabled or not; no step removes an entry.
C18_EveryAttemptRecorded ==
    [][/\ \A p \in Procs : AttemptEnds(p) =>
             LET u == handler[p].event.author
             IN  /\ u \in DOMAIN rateLimitMap'
                 /\ rateLimitMap'[u] >= handler'[p].now
       /\ DOMAIN rateLimitMap \subseteq DOMAIN rateLimitMap']_vars

\* C18 amended: the map is written exactly by the attempts that found a
\* config entry with rate limiting enabled and that the limiter allows,
\* each setting its author's entry to the time of its check; the step that
\* rejects an attempt, and every step of an attempt that read a disabled
\* entry or found none, leave the map as it is; no step removes an entry.
C18_AllowedAttemptRecorded ==
    [][/\ \A p \in Procs :
             /\ LimiterRecords(p) => Recorded(handler[p].event.author, handler[p].now)
             /\ (LimiterChecks(p) /\ handler'[p].pc = "reject") =>
                   rateLimitMap' = rateLimitMap
             /\ handler'[p].passed =>
                   /\ handler'[p].event.kind = "message"
                   /\ handler[p].passed \/ LimiterRecords(p)
             /\ (BeforeScan(handler'[p]) /\ handler'[p].pc \in {"limiter", "locked", "record"})
                   => (handler'[p].exists /\ handler'[p].serverConfig.RateLimitEnabled)
       /\ rateLimitMap' # rateLimitMap => \E p \in Procs : LimiterRecords(p)
       /\ DOMAIN rateLimitMap \subseteq DOMAIN rateLimitMap']_vars

\* C18 witness: an attempt has been rejected and the entry of its author
\* still holds the earlier time.
C18_Witness ==
    \E p \in Procs :
        LET u == handler[p].event.author
        IN  /\ Submitted(handler[p])
            /\ OnlyReply(handler[p], WaitText)
            /\ u \in DOMAIN rateLimitMap
            /\ rateLimitMap[u] < handler[p].now


(***************************************************************************)
(* Claims on the replies and the frame of the admin commands.              *)
(***************************************************************************)
\* goroutine p sends the reply of its write command in this step
Responds(p) == pc[p] = "respond" /\ pc'[p] = "idle"

\* C19: a write command whose saveConfig failed sends exactly one reply,
\* the error text with the error of the save, and no confirmation; one
\* whose saveConfig succeeded sends exactly one reply, its confirmation.
C19_OneReplyPerCommand ==
    [][\A p \in Procs : Responds(p) =>
          /\ Len(reply'[p]) = 1
          /\ IF saveErr[p] # None
             THEN /\ reply'[p][1].text = ErrorSavingText
                  /\ reply'[p][1].err = saveErr[p]
             ELSE /\ reply'[p][1].text # ErrorSavingText
                  /\ reply'[p][1].err = None
                  /\ reply'[p][1].id = cmd[p].id
                  /\ reply'[p][1].minutes = cmd[p].minutes]_vars

\* C19 witness: a command whose write to the file failed has replied with
\* that error.
C19_Witness ==
    \E p \in Procs :
        /\ pc[p] = "idle"
        /\ reply[p] # <<>>
        /\ reply[p][1].text = ErrorSavingText
        /\ reply[p][1].err = "write failed"

\* goroutine p takes a step of checkRateLimit: its lookup or its reply
Checks(p) == pc'[p] # pc[p] /\ (pc[p] = "check" \/ pc'[p] = "check")

\* goroutine p takes a step of the saveConfig of its write command
Saves(p) == pc[p] \in {"save", "marshalled", "opened"} /\ pc'[p] # pc[p]

\* C20: a write command in guild g leaves the entry of every other guild
\* as it is and adds no key but g; no step removes a key of the map; and
\* check_rate_limit changes neither the map nor the file: no step of it
\* does, the map changes only where a write command makes its write and
\* the file only within the saveConfig of a write command.
C20_OtherGuildsUntouched ==
    [][/\ \A p \in Procs : Writes(p) =>
             /\ \A g \in (DOMAIN config.Servers) \ {cmd'[p].guild} :
                   /\ g \in DOMAIN config'.Servers
                   /\ config'.Servers[g] = config.Servers[g]
             /\ DOMAIN config'.Servers \subseteq (DOMAIN config.Servers) \cup {cmd'[p].guild}
       /\ DOMAIN config.Servers \subseteq DOMAIN config'.Servers
       /\ \A p \in Procs : Checks(p) => config' = config /\ file' = file
       /\ config' # config =>
             \E p \in Procs : Writes(p) /\ cmd'[p].name # "check_rate_limit"
       /\ file' # file =>
             \E p \in Procs : Saves(p) /\ cmd[p].name # "check_rate_limit"]_vars

\* C20 witness: a command has just written the entry of one guild while
\* another guild has an entry that holds a duration.
C20_Witness ==
    \E p \in Procs, g \in Guilds :
        /\ pc[p] = "save"
        /\ g # cmd[p].guild
        /\ Exists(config.Servers, g)
        /\ Longer(config.Servers[g].RateLimitDuration, 0)

\* C20 witness of the read command: check_rate_limit has answered for a
\* guild whose entry a write command created.
C20_WitnessCheck ==
    \E p \in Procs :
        /\ pc[p] = "idle"
        /\ reply[p] # <<>>
        /\ reply[p][1].text = "Rate limit is enabled with a duration of %d minutes"
        /\ reply[p][1].minutes = DefaultRateLimitMinutes

\* C20 witness of a check overtaken by a write: check_rate_limit has read
\* that the guild has no entry and has not replied yet, and a write command
\* of the other goroutine has since created the entry.
C20_WitnessStaleCheck ==
    \E p \in Procs :
        /\ pc[p] = "check"
        /\ ~handler[p].exists
        /\ Exists(config.Servers, cmd[p].guild)
(***************************************************************************)
(* Claims on the control identifiers.                                      *)
(***************************************************************************)
\* the posted messages the click of the handler is on
ClickedPosts(hp) ==
    {k \in 1..Len(platform.posts) : platform.posts[k].id = hp.event.messageID}

HasSeparator(s) == \E k \in 1..Len(s) : s[k] = Separator

\* C21: the identifier of a clicked control of a posted message is
\* approve_<userId> or deny_<userId> for the user the message was posted
\* for; when the user id holds no '_' the button handler splits it back
\* into exactly that action and that user id, opens the direct channel of
\* that user and sends the message of that action; when the user id holds
\* a '_' the identifier is invalid and the handler does nothing after its
\* acknowledgement.
C21_IdentifierRoundTrip ==
    \A p \in Procs :
        LET calls == handler[p].calls
            event == handler[p].event
        IN  event.kind = "button" =>
              /\ ClickedPosts(handler[p]) # {}
              /\ \A k \in ClickedPosts(handler[p]) :
                    LET u == platform.posts[k].user
                    IN  \E a \in {approve, deny} :
                          /\ event.customID = ControlID(a, u)
                          /\ IF ~HasSeparator(u)
                             THEN /\ Parts(event.customID) = <<a, u>>
                                  /\ (handler[p].pc = "returned" /\ calls[1].ok) =>
                                        Len(calls) >= 2
                                  /\ Len(calls) >= 2 =>
                                        /\ calls[2].api = "UserChannelCreate"
                                        /\ calls[2].user = u
                                  /\ Len(calls) >= 3 =>
                                        /\ calls[3].channel = DMChannel(u)
                                        /\ calls[3].text =
                                              (IF a = approve THEN WelcomeDMText
                                               ELSE DenialDMText)
                                  /\ \A j \in 1..Len(calls) : calls[j].user \in {NoID, u}
                             ELSE /\ Len(Parts(event.customID)) # 2
                                  /\ Len(calls) <= 1
                                  /\ Len(calls) = 1 => handler[p].pc = "returned"

\* C21 witness: the deny control posted for a user with a two-character id
\* has been clicked and the member removed is that user.
C21_Witness ==
    \E p \in Procs :
        LET calls == handler[p].calls
            event == handler[p].event
        IN  /\ event.kind = "button"
            /\ event.customID = ControlID(deny, <<"1", "2">>)
            /\ \E k \in ClickedPosts(handler[p]) : platform.posts[k].user = <<"1", "2">>
            /\ \E k \in CallsTo(calls, "GuildMemberDelete") :
                  calls[k].ok /\ calls[k].user = <<"1", "2">>

\* C21 witness of the other side: the approve control posted for a user
\* whose id holds a '_' has been clicked and acknowledged, and the handler
\* has returned.
C21_WitnessInvalid ==
    \E p \in Procs :
        LET calls == handler[p].calls
            event == handler[p].event
        IN  /\ event.kind = "button"
            /\ handler[p].pc = "returned"
            /\ event.customID = ControlID(approve, <<"1", "_", "2">>)
            /\ Len(calls) = 1
            /\ calls[1].ok

(***************************************************************************)
(* Claims on which messages are submissions.                               *)
(***************************************************************************)
\* the handler of a message is where only processEmailVerification gets
InVerification(hp) ==
    hp.pc \in {"lookup", "limiter", "locked", "record", "reject", "invalid", "scan",
               "lookup2", "post"}

\* the handler has touched nothing: it has asked for no guild membership,
\* sent no reply and made no audit post, and has not passed the limiter
NotHandled(hp) ==
    /\ ~InVerification(hp)
    /\ ~hp.passed
    /\ \A k \in 1..Len(hp.calls) : hp.calls[k].api = "Channel"

\* goroutine p starts on a message, or its channel lookup returns, in this
\* step
Dispatches(p) ==
    /\ handler'[p].event.kind = "message"
    /\ handler[p].pc \in {"idle", "channel"}
    /\ handler'[p].pc # handler[p].pc

\* what memberDM does with the messages, given the messages that are to be
\* handled as submissions: those are handed to processEmailVerification
\* once their channel lookup has returned, and every other message is
\* dropped with the rate-limit map as it is, no reply and no audit post
HandledIff(submissions) ==
    /\ \A p \in Procs :
          /\ Dispatches(p) =>
                IF handler'[p].event \in submissions
                THEN handler'[p].pc \in {"channel", "lookup"}
                ELSE handler'[p].pc \in {"channel", "returned"}
          /\ (handler'[p].event.kind = "message" /\ handler'[p].event \notin submissions)
                => NotHandled(handler'[p])
    /\ rateLimitMap' # rateLimitMap =>
          \E p \in Procs : handler[p].event \in submissions /\ LimiterRecords(p)

\* the messages whose author is not the bot and whose channel is the direct
\* channel of the author
UserDMs ==
    {m \in MessageEvents \cup RepeatedMessages :
        m.author # BotID /\ m.channelID = DMChannel(m.author)}

\* the messages whose author is not the bot and whose channel the lookup
\* finds to be a direct-message channel
LookedUpDMs ==
    {m \in MessageEvents \cup RepeatedMessages :
        m.author # BotID /\ m.channelType = "DM"}

\* C22 as stated: a message is handled as a submission iff its author is
\* not the bot and its channel is a direct-message channel; every other
\* message leaves the rate-limit map unchanged, gets no reply and causes no
\* audit post.
C22_HandledIffUserDM == [][HandledIff(UserDMs)]_vars

\* C22 amended: a message is handled as a submission iff its author is not
\* the bot, the lookup of its channel succeeds and the channel found is a
\* direct-message channel; every other message (of the bot, in a guild
\* channel, or whose channel lookup fails) leaves the rate-limit map
\* unchanged, gets no reply and causes no audit post.
C22_HandledIffLookupSaysDM == [][HandledIff(LookedUpDMs)]_vars

\* C22 witness: a message of a user in a guild channel, carrying an address
\* and the id of a guild with rate limiting enabled, was dropped after the
\* channel lookup.
C22_Witness ==
    \E p \in Procs :
        LET event == handler[p].event
        IN  /\ event.kind = "message"
            /\ handler[p].pc = "returned"
            /\ event.author \in Users
            /\ event.channelType = "guild text"
            /\ MatchString(event.content)
            /\ Exists(config.Servers, event.guildID)
            /\ config.Servers[event.guildID].RateLimitEnabled
            /\ handler[p].calls = <<ChannelCall(GuildTextChannel, TRUE)>>
            /\ rateLimitMap = [u \in {} |-> 0]

\* C22 witness of the failed lookup: a message of a user in the direct
\* channel, carrying an address, was dropped because s.Channel failed.
C22_WitnessLookupFailed ==
    \E p \in Procs :
        LET event == handler[p].event
        IN  /\ event.kind = "message"
            /\ handler[p].pc = "returned"
            /\ event.author \in Users
            /\ event.channelID = DMChannel(event.author)
            /\ MatchString(event.content)
            /\ Exists(config.Servers, event.guildID)
            /\ handler[p].calls = <<ChannelCall(event.channelID, FALSE)>>

\* C22 witness of the bot's own message: nothing was called.
C22_WitnessOwnMessage ==
    \E p \in Procs :
        LET event == handler[p].event
        IN  /\ event.kind = "message"
            /\ handler[p].pc = "returned"
            /\ event.author = BotID
            /\ event.channelType = "DM"
            /\ Exists(config.Servers, event.guildID)
            /\ handler[p].calls = <<>>

(***************************************************************************)
(* Claims on concurrent submissions.                                       *)
(***************************************************************************)
\* goroutine p has passed the rate limiter with the message it is handling
PassedCheck(p) == handler[p].event.kind = "message" /\ handler[p].passed

\* the duration of the entry goroutine p read for its message; it is the
\* entry of the limiter until the second lookup replaces it
DurationOf(p) == handler[p].serverConfig.RateLimitDuration

\* C23: of two direct messages of the same user handled concurrently under
\* the same enabled rate limit of positive duration D, both pass the rate
\* limiter only when the instants at which they were checked are at least D
\* apart: within D of each other at most one passes, whatever the
\* interleaving.
C23_AtMostOnePasses ==
    \A p \in Procs, q \in Procs :
        (/\ p # q
         /\ PassedCheck(p)
         /\ PassedCheck(q)
         /\ handler[p].event.author = handler[q].event.author
         /\ DurationOf(p) = DurationOf(q)
         /\ Longer(DurationOf(p), 0))
        => \/ ~Longer(DurationOf(p), handler[p].now - handler[q].now)
           \/ ~Longer(DurationOf(p), handler[q].now - handler[p].now)

\* C23 witness: while one goroutine that passed the rate limiter is still
\* before its pattern check has had an effect, the other, checked at the
\* same instant, has been rejected.
C23_Witness ==
    \E p \in Procs, q \in Procs :
        /\ p # q
        /\ PassedCheck(p)
        /\ handler[p].pc \in {"scan", "invalid"}
        /\ handler[q].pc = "returned"
        /\ handler[q].event.author = handler[p].event.author
        /\ handler[q].now = handler[p].now
        /\ \E k \in 1..Len(handler[q].calls) : handler[q].calls[k].text = WaitText

(***************************************************************************)
(* Claims on concurrent admin commands.                                    *)
(***************************************************************************)
\* the value a write command carries for the field it names
CommandValue(c) ==
    CASE c.name \in {"set_member_audit_channel",
                     "set_unverified_role"} -> c.id
      [] c.name = "enable_rate_limit" -> TRUE
      [] c.name = "disable_rate_limit" -> FALSE
      [] c.name = "set_rate_limit" -> Minutes(c.minutes)

\* config cfg holds the value of command c in the field c names
Holds(cfg, c) ==
    /\ Exists(cfg.Servers, c.guild)
    /\ cfg.Servers[c.guild][NamedField(c.name)] = CommandValue(c)

\* c and d set the same field of the same guild
SameTarget(c, d) == c.guild = d.guild /\ NamedField(c.name) = NamedField(d.name)

\* the behaviour has two write commands, handled by the two goroutines, and
\* both have completed: the saveConfig of each has returned without error
BothDone ==
    /\ issued = 2
    /\ \A p \in Procs : pc[p] = "respond" /\ saveErr[p] = None

\* the commands of the two goroutines
TheCommands == {cmd[p] : p \in Procs}

\* C24 as stated: once two concurrent write commands have both completed,
\* if they set different fields (of one guild or of two) the in-memory
\* config and the persisted file both hold both new values; if they set the
\* same field, memory and file hold the value of the same one of the two.
C24_BothValuesKept ==
    BothDone =>
        IF \E c \in TheCommands, d \in TheCommands : c # d /\ SameTarget(c, d)
        THEN \E c \in TheCommands : Holds(config, c) /\ Holds(loadConfig(file).config, c)
        ELSE \A c \in TheCommands : Holds(config, c) /\ Holds(loadConfig(file).config, c)

(***************************************************************************)
(* Claims on the lock discipline.                                          *)
(***************************************************************************)
\* C25: in every reachable state, no goroutine holds the read lock while
\* one holds the exclusive lock; a goroutine about to read the map
\* (lookup, marshal) holds the read lock or the exclusive lock, one about
\* to write it holds the exclusive lock; and no goroutine is about to
\* write the map while another is about to read or write it.
C25_LockDiscipline ==
    /\ writer # None => readers = {}
    /\ \A p \in Procs :
          /\ NextOp(p) \in ReadOps => (p \in readers \/ writer = p)
          /\ NextOp(p) \in WriteOps => writer = p
    /\ \A p \in Procs, q \in Procs :
          (p # q /\ NextOp(p) \in WriteOps) => NextOp(q) \notin ReadOps \cup WriteOps

\* C25 witness: a write command is about to store its entry while the
\* other goroutine, in processEmailVerification, waits for the read lock
\* of its second lookup.
C25_Witness ==
    \E p \in Procs, q \in Procs :
        /\ NextOp(p) = "store"
        /\ writer = p
        /\ run[q].name = "processEmailVerification"
        /\ run[q].pc > 3
        /\ NextOp(q) = "RLock"

\* C25 witness of the shared mode: two goroutines read the map at once,
\* one marshalling it in saveConfig.
C25_WitnessShared ==
    \E p \in Procs, q \in Procs :
        /\ p # q
        /\ NextOp(p) = "marshal"
        /\ NextOp(q) = "lookup"
        /\ readers = {p, q}

(***************************************************************************)
(* Claims on failed platform calls.                                        *)
(***************************************************************************)
\* the calls that assign or remove a role, open a direct channel, send or
\* edit a message, or remove a member
EffectAPIs ==
    {"GuildMemberRoleAdd", "GuildMemberRoleRemove", "UserChannelCreate",
     "ChannelMessageSend", "ChannelMessageSendComplex", "GuildMemberDelete",
     "ChannelMessageEditComplex", "InteractionRespond", "InteractionResponseEdit"}

\* C26 as stated: in every handler, a failed platform call (role
\* assignment or removal, opening of a direct channel, message sent or
\* edited, member removal) is the last call the handler issues.
C26_FailedCallEndsHandler ==
    \A p \in Procs :
        LET calls == handler[p].calls
        IN  \A k \in 1..Len(calls) :
                (calls[k].api \in EffectAPIs /\ ~calls[k].ok) => k = Len(calls)

(***************************************************************************)
(* Claims on what the audit message shows.                                 *)
(***************************************************************************)
\* C27 as stated: whenever a click on approve_<userId> has edited the audit
\* message to the approval line in a guild that has an unverified role
\* configured, that role has been removed from the user, by this click or
\* by an earlier one.
C27_ApprovalShownOnlyIfVerified ==
    \A p \in Procs : \A u \in Users :
        LET calls == handler[p].calls
            event == handler[p].event
        IN  (/\ Clicked(handler[p], approve, u)
             /\ Lookup(config.Servers, event.guildID).UnverifiedRoleID # NoID
             /\ \E k \in CallsTo(calls, "ChannelMessageEditComplex") :
                   calls[k].ok /\ calls[k].text = ApprovedText)
            => u \in platform.unroled

(***************************************************************************)
(* Claims on the acknowledgement of a click.                               *)
(***************************************************************************)
\* goroutine p takes a step of the handler of a click
ClickStep(p) == handler'[p].event.kind = "button" /\ handler'[p] # handler[p]

\* C28: the first call of handleButton is the deferred acknowledgement,
\* before any direct message, role removal, member removal or edit, and it
\* is made once; when the acknowledgement fails it is the only call, the
\* handler returns with it, and nothing changes on Discord's side: no
\* message delivered, no role and no member removed, no audit message
\* edited.
C28_AcknowledgedFirst ==
    [][\A p \in Procs : ClickStep(p) =>
          LET calls == handler'[p].calls
          IN  /\ calls = <<>> => platform' = platform
              /\ calls # <<>> =>
                    /\ calls[1].api = "InteractionRespond"
                    /\ \A k \in 2..Len(calls) : calls[k].api # "InteractionRespond"
                    /\ ~calls[1].ok =>
                          /\ Len(calls) = 1
                          /\ handler'[p].pc = "returned"
                          /\ platform' = platform]_vars

\* C28 witness: a click on approve_<userId> in a guild with an unverified
\* role could not be acknowledged, and the handler has returned with no
\* other call made and nothing changed.
C28_Witness ==
    \E p \in Procs : \E u \in Users :
        /\ Clicked(handler[p], approve, u)
        /\ Lookup(config.Servers, handler[p].event.guildID).UnverifiedRoleID # NoID
        /\ handler[p].calls = <<InteractionRespondCall(FALSE)>>
        /\ platform = NoEffects

(***************************************************************************)
(* Claims on the disabled rate limit.                                      *)
(***************************************************************************)
\* the wait replies among the calls cs
WaitRepliesOf(cs) == {k \in 1..Len(cs) : cs[k].text = WaitText}

\* goroutine p, handling a direct message, sends a wait reply in this step
SendsWaitReply(p) ==
    /\ handler'[p].event.kind = "message"
    /\ WaitRepliesOf(handler'[p].calls) # WaitRepliesOf(handler[p].calls)

\* C29 as stated: the rate-limit map is written, and a wait reply is sent,
\* only by a submission whose guild has rate limiting enabled in the config
\* at that moment.
C29_DisabledLimitIgnored ==
    [][\A p \in Procs :
          (LimiterRecords(p) \/ SendsWaitReply(p))
          => Lookup(config.Servers, handler[p].event.guildID).RateLimitEnabled]_vars

\* C29 amended: a submission whose handler read, at its lookup of the guild's
\* entry, that rate limiting is disabled goes straight to the pattern check:
\* it never takes rateLimitLock, gets no wait reply and does not write the
\* map; the map is written only by a handler that read an enabled entry and
\* only at its author's key, and a wait reply answers only an author who
\* has an entry in the map.
C29_DisabledCopyIgnored ==
    [][/\ \A p \in Procs :
             /\ (BeforeScan(handler'[p]) /\ ~handler'[p].serverConfig.RateLimitEnabled) =>
                   /\ handler'[p].pc \in {"invalid", "scan"}
                   /\ ~handler'[p].passed
                   /\ WaitRepliesOf(handler'[p].calls) = {}
                   /\ rateLimitLock' # p
             /\ (handler'[p].event.kind = "message" /\ handler'[p].passed) =>
                   handler[p].passed \/ LimiterRecords(p)
             /\ SendsWaitReply(p) =>
                   /\ handler[p].pc = "reject"
                   /\ handler[p].serverConfig.RateLimitEnabled
                   /\ handler[p].event.author \in DOMAIN rateLimitMap
       /\ rateLimitMap' # rateLimitMap =>
             \E p \in Procs :
                 /\ LimiterRecords(p)
                 /\ handler[p].serverConfig.RateLimitEnabled
                 /\ \A u \in DOMAIN rateLimitMap :
                       u # handler[p].event.author =>
                           (u \in DOMAIN rateLimitMap' /\ rateLimitMap'[u] = rateLimitMap[u])]_vars

\* C29 witness: after a recorded submission the limit was disabled, and a
\* second submission of the user, within the stored duration of the first,
\* has read the disabled entry and got past the limiter with no wait reply,
\* the recorded time unchanged.
C29_Witness ==
    \E p \in Procs :
        LET u == handler[p].event.author
        IN  /\ BeforeScan(handler[p])
            /\ handler[p].pc = "scan"
            /\ handler[p].serverConfig.MemberAuditChannelID # NoID
            /\ ~handler[p].serverConfig.RateLimitEnabled
            /\ ~handler[p].passed
            /\ u \in DOMAIN rateLimitMap
            /\ rateLimitMap[u] < now
            /\ Longer(handler[p].serverConfig.RateLimitDuration, now - rateLimitMap[u])
            /\ WaitRepliesOf(handler[p].calls) = {}

\* C29 witness of the limit enabled afterwards: enable_rate_limit has been
\* confirmed, and the submission of a user with no entry, at a later
\* instant, was allowed and recorded.
C29_WitnessEnabledLater ==
    \E p \in Procs :
        /\ BeforeScan(handler[p])
        /\ handler[p].pc = "scan"
        /\ handler[p].passed
        /\ reply[Admin] =
              <<SuccessReply([name |-> "enable_rate_limit", guild |-> GuildList[1],
                              id |-> NoID, minutes |-> 0])>>
        /\ now > 0
        /\ rateLimitMap = Record([u \in {} |-> 0], handler[p].event.author, now)


(***************************************************************************)
(* Claims on the rate-limit commands.                                      *)
(***************************************************************************)
\* set_rate_limit in guild g has made its write in another goroutine than p:
\* it is past its write, or its confirmation is the goroutine's last reply
SetBefore(p, g) ==
    \E q \in Procs \ {p} :
        \/ /\ pc[q] # "idle"
           /\ cmd[q].name = "set_rate_limit"
           /\ cmd[q].guild = g
        \/ \E m \in (0..MaxMinutes) \cup {OverflowMinutes} :
              reply[q] = CommandReplies([name |-> "set_rate_limit", guild |-> g,
                                         id |-> NoID, minutes |-> m], None)

\* the flag and the duration a rate-limit command leaves, given whether the
\* duration is defaulted; m minutes are m * Minute units of time
RateLimitWriteIs(c, before, after, defaulted) ==
    CASE c.name = "enable_rate_limit" ->
            /\ after.RateLimitEnabled
            /\ after.RateLimitDuration =
                  (IF defaulted THEN Dur(DefaultRateLimitMinutes * Minute)
                   ELSE before.RateLimitDuration)
      [] c.name = "disable_rate_limit" ->
            /\ ~after.RateLimitEnabled
            /\ after.RateLimitDuration = before.RateLimitDuration
      [] c.name = "set_rate_limit" ->
            /\ after.RateLimitDuration = Dur(c.minutes * Minute)
            /\ after.RateLimitEnabled = before.RateLimitEnabled
      [] OTHER -> TRUE

\* C30 as stated: enable_rate_limit turns the flag on and keeps the duration
\* stored by an earlier set_rate_limit of the guild, and sets 5 minutes only
\* when none was ever set; disable_rate_limit turns the flag off and keeps
\* the duration; set_rate_limit(m) stores m minutes and keeps the flag.
C30_DefaultOnlyIfNeverSet ==
    [][\A p \in Procs : Writes(p) =>
          LET c == cmd'[p]
              before == Lookup(config.Servers, c.guild)
              after == Lookup(config'.Servers, c.guild)
          IN  /\ RateLimitWriteIs(c, before, after,
                                  after.RateLimitDuration # before.RateLimitDuration)
              /\ (c.name = "enable_rate_limit" /\ SetBefore(p, c.guild)) =>
                    after.RateLimitDuration = before.RateLimitDuration]_vars

(***************************************************************************)
(* Claims on the nil guild map.                                            *)
(***************************************************************************)
\* C31: once main's loadConfig() has returned no error, the guild map is
\* initialised and no admin write command ends the process in a panic: a
\* command that has been received is on its way to its reply.
C31_MapInitialisedAfterLoad ==
    loadErr = None =>
        /\ config.Allocated
        /\ \A p \in Procs : pc[p] # "fault"

(***************************************************************************)
(* Claims on a failed save.                                                *)
(***************************************************************************)
\* the saveConfig of goroutine p returns an error in this step
Fails(p) == saveErr[p] = None /\ saveErr'[p] # None

\* C32 as stated: when the saveConfig of a write command fails, the in-memory
\* config holds the command's value, the file is the old one, a well-formed
\* document without that value, and the file and the in-memory config differ.
C32_FileKeepsOldAndDiffers ==
    [][\A p \in Procs : Fails(p) =>
          /\ config' = config
          /\ Holds(config', cmd[p])
          /\ loadConfig(file').err = None
          /\ ~Holds(loadConfig(file').config, cmd[p])
          /\ loadConfig(file').config # config']_vars

(***************************************************************************)
(* Claims on platform calls and the config lock.                           *)
(***************************************************************************)
\* C33: no goroutine has an outbound platform call in flight while it holds
\* configMutex, in either mode.
C33_NoCallUnderLock ==
    \A p \in Procs : NextOp(p) = "call" => (p \notin readers /\ writer # p)

====
